---- MODULE Spec2Model ----
(***************************************************************************)
(* Constraint violation detection and repair generation of the            *)
(* db-repair-cqa-system front end: checkViolations (violationChecker),    *)
(* the repair generators (repairGenerator), the violation position        *)
(* tracker (editUtils) and the editing session of App, as state machines  *)
(* over the uploaded tables.                                               *)
(***************************************************************************)
EXTENDS Integers, Sequences, FiniteSets, Bags, TLC

(***************************************************************************)
(* Cell values.  A JavaScript value is null, a string or a number; a      *)
(* value is the pair <<tag, text>>, text being what String(value) yields  *)
(* for a string or a number.  A cell of an uploaded table is a string or  *)
(* a number: parseCSV and parseJSON store '' for a cell that is missing   *)
(* or null.                                                                *)
(***************************************************************************)
Null == <<"null", "">>
Empty == <<"text", "">>
T1 == <<"text", "1">>
N1 == <<"num", "1">>
Tx == <<"text", "x">>
TSp == <<"text", " 1">>

Values == {Empty, T1, N1, Tx, TSp}

\* The values drawn for each column of an uploaded table: the key column
\* mixes strings with a number (a JSON upload), the second column has
\* empty cells.
ColumnValues == [id |-> {Empty, T1, N1, Tx}, a |-> {Empty, T1, Tx}]

\* Object.keys(tableData[0]): the column names in declaration order.
Columns == <<"id", "a">>

ColSet == {Columns[k] : k \in 1..Len(Columns)}

Rows == {r \in [ColSet -> Values] : \A c \in ColSet : r[c] \in ColumnValues[c]}

\* Largest number of rows of an uploaded table.
MaxRows == 3

\* The constraint sets and declared types drawn for each column.
ColumnConstraints == [id |-> {{}, {"primary"}, {"unique"}},
                      a |-> {{}, {"primary"}, {"unique"}, {"notnull"}}]

\* The types chosen in the column form; a type left as it is there is the
\* one detectTypes found.
ColumnTypes == [id |-> {"VARCHAR"}, a |-> {"VARCHAR", "INT"}]

VARIABLES
  tableData,            \* App state tableData: the rows of the selected table
  confirmedConstraints, \* App state: one constraint set per column index
  confirmedTypes,       \* App state: one SQL type per column index
  fileTables,           \* App state: file name -> [rows, columns]
  foreignKeyConfig,     \* App state: [primaryFile, fkCol, referencedFile], "" for null
  checkResults,         \* App state: the stored violation list
  repairFiles,          \* App state: the candidate repairs
  generated,            \* what the repair generator applied last returned
  deleteIndex,          \* 0-based index handed to updateViolationsAfterDelete, -1 if none
  updated,              \* what updateViolationsAfterDelete returned
  selectedRepairFile,   \* App state: name of the selected candidate, "" for null
  customUndoStack,      \* App ref: snapshots of candidate row sequences
  stackOwners,          \* history: for each snapshot, the candidate it was taken from
  history,              \* history: the row sequences the selected candidate had before
                        \* each mutation since it was selected, oldest first
  undoExpected,         \* history: what the last undo had to restore, if known
  steps,                \* number of session actions taken
  editModal,            \* App state: the edit form and the entry it was opened on
  effectPending,        \* the effect on [selectedRepairFile, repairFiles, ...] is due
  fileEffectPending,    \* the effect on [selectedFile, fileTables] is due
  timers,               \* the zero-delay timers not yet fired, oldest first
  selectedFile,         \* App state: name of the uploaded file shown, "" for null
  repairTriggered,      \* App state: a repair has installed its candidates
  pc                    \* which operation acted last

\* The editing session of App.
session == <<selectedRepairFile, customUndoStack, stackOwners, history,
             undoExpected, steps, editModal, effectPending, fileEffectPending,
             timers, selectedFile, repairTriggered>>

vars == <<tableData, confirmedConstraints, confirmedTypes, fileTables,
          foreignKeyConfig, checkResults, repairFiles, generated, deleteIndex,
          updated, session, pc>>

(***************************************************************************)
(* Value conversions                                                       *)
(***************************************************************************)
\* val === '' || val == null
IsEmpty(val) == val = Null \/ val = Empty

\* String(value), also what a template literal `${value}` yields.
String(val) == IF val = Null THEN "null" ELSE val[2]

\* What Array.prototype.join yields for one element: null becomes ''.
JoinString(val) == IF val = Null THEN "" ELSE val[2]

\* The texts of the value universe and the characters of each.
Texts == {"", "1", "x", " 1"}

Chars(s) ==
  CASE s = "" -> <<>>
    [] s = "1" -> <<"1">>
    [] s = "x" -> <<"x">>
    [] s = " 1" -> <<" ", "1">>

RECURSIVE TrimChars(_)
\* Leading and trailing blanks removed.
TrimChars(cs) ==
  IF cs = <<>> THEN <<>>
  ELSE IF Head(cs) = " " THEN TrimChars(Tail(cs))
  ELSE IF cs[Len(cs)] = " " THEN TrimChars(SubSeq(cs, 1, Len(cs) - 1))
  ELSE cs

\* String.prototype.trim
Trim(s) == CHOOSE t \in Texts : Chars(t) = TrimChars(Chars(s))

\* /^-?\d+$/ on the texts of the value universe.
IsIntegerText(s) == s = "1"

\* !isNaN(parseFloat(s)) && isFinite(s) on the texts of the value universe.
IsNumberText(s) == s = "1"

\* ['true', 'false', '1', '0', 'yes', 'no'].includes(s.toLowerCase())
IsBooleanText(s) == s = "1"

\* !isNaN(Date.parse(s)): the engine the program runs on reads '1' as a
\* date and 'x' as none.
IsDateText(s) == s = "1"

\* sqlType.toUpperCase() on the type names of the model.
ToUpperCase(sqlType) ==
  CASE sqlType = "number" -> "NUMBER"
    [] sqlType = "string" -> "STRING"
    [] sqlType = "integer" -> "INTEGER"
    [] OTHER -> sqlType

\* validateDataType(value, sqlType): the switch on the upper-cased type.
validateDataType(value, sqlType) ==
  IF IsEmpty(value) THEN TRUE
  ELSE LET trimmedVal == Trim(String(value))
           type == ToUpperCase(sqlType)
       IN IF trimmedVal = "" THEN TRUE
          ELSE IF type \in {"INT", "INTEGER", "BIGINT"} THEN IsIntegerText(trimmedVal)
          ELSE IF type \in {"FLOAT", "DOUBLE", "DECIMAL", "NUMERIC"}
          THEN IsNumberText(trimmedVal)
          ELSE IF type \in {"BOOLEAN", "BOOL"} THEN IsBooleanText(trimmedVal)
          ELSE IF type \in {"DATE", "DATETIME", "TIMESTAMP"} THEN IsDateText(trimmedVal)
          ELSE TRUE

\* isNaN(val): Number(null) and Number('') are 0.
IsNaN(val) == val # Null /\ Trim(String(val)) \notin {"", "1"}

\* detectTypes(rows, columns): 'number' for a column all of whose values
\* are numbers and not '', else 'string'.
detectTypes(rows, columns) ==
  [k \in 1..Len(columns) |->
     IF \A p \in 1..Len(rows) :
          ~IsNaN(rows[p][columns[k]]) /\ rows[p][columns[k]] # Empty
     THEN "number" ELSE "string"]

(***************************************************************************)
(* Sequence helpers                                                        *)
(***************************************************************************)
RECURSIVE SelectIdx(_, _, _)
\* The positions p in lo..hi with keep[p], ascending (Array.prototype.filter
\* by index).
SelectIdx(keep, lo, hi) ==
  IF lo > hi THEN <<>>
  ELSE IF keep[lo] THEN <<lo>> \o SelectIdx(keep, lo + 1, hi)
  ELSE SelectIdx(keep, lo + 1, hi)

RECURSIVE FirstOccurrences(_)
\* new Set(seq) in iteration order: each element at its first occurrence.
FirstOccurrences(seq) ==
  IF seq = <<>> THEN <<>>
  ELSE LET init == FirstOccurrences(SubSeq(seq, 1, Len(seq) - 1))
           last == seq[Len(seq)]
       IN IF \E k \in 1..Len(init) : init[k] = last THEN init
          ELSE Append(init, last)

Range(seq) == {seq[k] : k \in 1..Len(seq)}

RECURSIVE Concat(_)
Concat(seqs) == IF seqs = <<>> THEN <<>> ELSE Head(seqs) \o Concat(Tail(seqs))

(***************************************************************************)
(* checkViolations                                                         *)
(***************************************************************************)
NullMsg == "Null/empty value"
DupMsg == "Duplicate value"
TypeMsg == "Type mismatch"

Violation(r, c, t, m) == [row |-> r, col |-> c, type |-> t, msg |-> m]

\* The type pass of one column: TYPE MISMATCH for every invalid value.
TypePass(rows, col, dataType) ==
  LET bad == [p \in 1..Len(rows) |-> ~validateDataType(rows[p][col], dataType)]
      idx == SelectIdx(bad, 1, Len(rows))
  IN [k \in 1..Len(idx) |-> Violation(idx[k], col, "TYPE MISMATCH", TypeMsg)]

\* The pass with a `seen` Set over one column.  exempt = TRUE is the unique
\* pass, which skips null/empty values; FALSE is the primary pass, which
\* flags them.
RECURSIVE SeenPass(_, _, _, _, _, _)
SeenPass(rows, col, type, exempt, p, seen) ==
  IF p > Len(rows) THEN <<>>
  ELSE LET val == rows[p][col] IN
    IF IsEmpty(val)
    THEN (IF exempt THEN <<>> ELSE <<Violation(p, col, type, NullMsg)>>)
         \o SeenPass(rows, col, type, exempt, p + 1, seen)
    ELSE IF val \in seen
    THEN <<Violation(p, col, type, DupMsg)>>
         \o SeenPass(rows, col, type, exempt, p + 1, seen)
    ELSE SeenPass(rows, col, type, exempt, p + 1, seen \cup {val})

\* Mutant of PrimaryPass: null/empty keys are skipped, as the unique pass does.
PrimaryPassSkipsEmpty(rows, col) == SeenPass(rows, col, "PRIMARY KEY", TRUE, 1, {})

PrimaryPass(rows, col) == SeenPass(rows, col, "PRIMARY KEY", FALSE, 1, {})

UniquePass(rows, col) == SeenPass(rows, col, "UNIQUE", TRUE, 1, {})

NotNullPass(rows, col) ==
  LET bad == [p \in 1..Len(rows) |-> IsEmpty(rows[p][col])]
      idx == SelectIdx(bad, 1, Len(rows))
  IN [k \in 1..Len(idx) |-> Violation(idx[k], col, "NOT NULL", NullMsg)]

\* Object.keys(row): the columns the row object has, in declaration order
\* (a row of a table without columns has none).
ObjectKeys(row) == SelectSeq(Columns, LAMBDA c : c \in DOMAIN row)

\* All passes of the column at index idx, in the order the code runs them.
ColumnPasses(rows, constraints, types, idx) ==
  LET col == ObjectKeys(rows[1])[idx] IN
    TypePass(rows, col, types[idx])
    \o (IF "primary" \in constraints[idx] THEN PrimaryPass(rows, col) ELSE <<>>)
    \o (IF "unique" \in constraints[idx] THEN UniquePass(rows, col) ELSE <<>>)
    \o (IF "notnull" \in constraints[idx] THEN NotNullPass(rows, col) ELSE <<>>)

\* foreignKeyConfig with no field set (the App state starts with null).
NoForeignKey == [primaryFile |-> "", fkCol |-> "", referencedFile |-> ""]

\* handleModalConfirm, the link configuration: a table with a `foreign`
\* column becomes the referencing file, else one with a `primary` column the
\* referenced-key file.
ConfirmConfig(prev, file, columns, constraints) ==
  LET fk == {k \in 1..Len(constraints) : "foreign" \in constraints[k]}
      pk == {k \in 1..Len(constraints) : "primary" \in constraints[k]}
  IN IF fk # {}
     THEN [prev EXCEPT !.referencedFile = file,
                       !.fkCol = columns[CHOOSE k \in fk : \A m \in fk : k <= m]]
     ELSE IF pk # {} THEN [prev EXCEPT !.primaryFile = file]
     ELSE prev

\* `Value '${value}' not found in ${primaryFile}.${pkCol}`
ForeignKeyMsg(value, primaryFile, pkCol) ==
  "Value '" \o String(value) \o "' not found in " \o primaryFile \o "." \o pkCol

\* primarySet: the trimmed string forms of the non-empty values of pkCol.
PrimarySet(primaryRows, pkCol) ==
  {Trim(String(primaryRows[p][pkCol])) :
     p \in {q \in 1..Len(primaryRows) : ~IsEmpty(primaryRows[q][pkCol])}}

\* Mutant of checkForeignKeyViolations: the foreign-key value is compared
\* without being trimmed.
checkForeignKeyViolationsNoTrim(foreignRows, primaryRows, fkCol, pkCol) ==
  IF fkCol = "" \/ pkCol = "" THEN <<>>
  ELSE LET bad == [p \in 1..Len(foreignRows) |->
                     /\ ~IsEmpty(foreignRows[p][fkCol])
                     /\ String(foreignRows[p][fkCol])
                          \notin PrimarySet(primaryRows, pkCol)]
       IN SelectIdx(bad, 1, Len(foreignRows))

\* checkForeignKeyViolations(foreignRows, primaryRows, fkCol, pkCol): the
\* 1-based indices of the flagged rows of foreignRows, ascending.
checkForeignKeyViolations(foreignRows, primaryRows, fkCol, pkCol) ==
  IF fkCol = "" \/ pkCol = "" THEN <<>>
  ELSE LET bad == [p \in 1..Len(foreignRows) |->
                     /\ ~IsEmpty(foreignRows[p][fkCol])
                     /\ Trim(String(foreignRows[p][fkCol]))
                          \notin PrimarySet(primaryRows, pkCol)]
       IN SelectIdx(bad, 1, Len(foreignRows))

\* The primary-key column of the referenced table: the column at the first
\* index whose confirmedConstraints entry has `primary`, else the first
\* column; "" (null) for a table without columns.
PkCol(primaryTable, constraints) ==
  LET cols == primaryTable.columns
      hits == {k \in 1..Len(cols) : k <= Len(constraints) /\ "primary" \in constraints[k]}
  IN IF Len(cols) = 0 THEN ""
     ELSE IF hits # {} THEN cols[CHOOSE k \in hits : \A j \in hits : k <= j]
     ELSE cols[1]

\* The foreign-key block of checkViolations.
ForeignKeyCheck(constraints, tables, config) ==
  IF config.primaryFile = "" \/ config.fkCol = "" \/ config.referencedFile = ""
  THEN <<>>
  ELSE IF config.primaryFile \notin DOMAIN tables \/ config.referencedFile \notin DOMAIN tables
  THEN <<>>
  ELSE LET primaryTable == tables[config.primaryFile]
           foreignTable == tables[config.referencedFile]
           pkCol == PkCol(primaryTable, constraints)
           violationsFK == checkForeignKeyViolations(foreignTable.rows, primaryTable.rows,
                                                     config.fkCol, pkCol)
       IN [k \in 1..Len(violationsFK) |->
             Violation(violationsFK[k], config.fkCol, "FOREIGN KEY",
                       ForeignKeyMsg(foreignTable.rows[violationsFK[k]][config.fkCol],
                                     config.primaryFile, pkCol))]

\* checkViolations(tableData, confirmedConstraints, fileTables,
\*                 foreignKeyConfig, confirmedTypes)
checkViolations(rows, constraints, tables, config, types) ==
  IF Len(rows) = 0 \/ Len(constraints) = 0 THEN <<>>
  ELSE Concat([idx \in 1..Len(ObjectKeys(rows[1])) |->
                 ColumnPasses(rows, constraints, types, idx)])
       \o ForeignKeyCheck(constraints, tables, config)

(***************************************************************************)
(* updateViolationsAfterDelete (editUtils)                                 *)
(***************************************************************************)
\* Mutant of updateViolationsAfterDelete: the violations of the deleted row
\* stay in the list.
updateViolationsKeepDeleted(results, d) ==
  [k \in 1..Len(results) |->
     IF results[k].row - 1 > d THEN [results[k] EXCEPT !.row = @ - 1]
     ELSE results[k]]

\* checkResults.filter(row - 1 !== deleteIndex).map(shift the later rows).
updateViolationsAfterDelete(results, d) ==
  IF Len(results) = 0 THEN <<>>
  ELSE LET keep == [k \in 1..Len(results) |-> results[k].row - 1 # d]
           idx == SelectIdx(keep, 1, Len(results))
       IN [j \in 1..Len(idx) |->
             IF results[idx[j]].row - 1 > d
             THEN [results[idx[j]] EXCEPT !.row = @ - 1]
             ELSE results[idx[j]]]

(***************************************************************************)
(* Candidate repairs (repairGenerator)                                     *)
(*                                                                         *)
(* A candidate's rows are row objects taken from tableData; `from`         *)
(* records the tableData position of the object each row is (filter keeps  *)
(* references) or was copied from, which is what tableData.indexOf(row)    *)
(* finds for a kept reference.                                             *)
(***************************************************************************)
Candidate(name, rows, from, partial, editable) ==
  [name |-> name, rows |-> rows, from |-> from,
   isPartialRepair |-> partial, editableRows |-> editable]

\* A candidate that stores the column types it was generated under.
Typed(c, types) ==
  [f \in DOMAIN c \cup {"types"} |-> IF f = "types" THEN types ELSE c[f]]

\* What a generator stores with a candidate besides its rows: `file` is the
\* file name that its name starts with (`${file}${name}.csv`, a time stamp
\* left out) and `columns` its column list.  `shared` tells that its rows
\* are the row objects of the uploaded table (filter and spread keep them),
\* not copies of them.
Named(c, file, columns, shared) ==
  [f \in DOMAIN c \cup {"file", "columns", "shared"} |->
     IF f = "file" THEN file
     ELSE IF f = "columns" THEN columns
     ELSE IF f = "shared" THEN shared
     ELSE c[f]]

\* The name of a candidate as the code compares it with file names.
FullName(c) == c.file \o c.name \o ".csv"

\* `${col}:${value}`, the key of seenValues and lastIndices.
ValueKey(col, value) == <<col, String(value)>>

\* violations.filter(v => v.msg.includes(msg))
WithMsg(violations, msg) == SelectSeq(violations, LAMBDA v : v.msg = msg)

\* new Set(violations.map(v => v.row - 1)): 0-based row indices.
RowIndices(violations) == {violations[k].row - 1 : k \in 1..Len(violations)}

\* new Set(violations.map(v => v.col)) in iteration order.
ViolatedCols(violations) ==
  FirstOccurrences([k \in 1..Len(violations) |-> violations[k].col])

\* Mutant of KeepFirstCols: no key is ever recorded as seen.
KeepFirstColsNoRecord(row, cols, k, seen) ==
  [keep |-> \A j \in k..Len(cols) : ValueKey(cols[j], row[cols[j]]) \notin seen,
   seen |-> seen]

RECURSIVE KeepFirstCols(_, _, _, _)
\* The for-loop over the duplicate-violated columns inside the keep-first
\* filter callback: stops at the first key already seen, records the others.
KeepFirstCols(row, cols, k, seen) ==
  IF k > Len(cols) THEN [keep |-> TRUE, seen |-> seen]
  ELSE LET key == ValueKey(cols[k], row[cols[k]]) IN
       IF key \in seen THEN [keep |-> FALSE, seen |-> seen]
       ELSE KeepFirstCols(row, cols, k + 1, seen \cup {key})

RECURSIVE KeepFirst(_, _, _, _, _)
\* repairRows1 = tableData.filter(...): the positions retained by keep-first.
KeepFirst(rows, nullRowIndices, cols, p, seen) ==
  IF p > Len(rows) THEN <<>>
  ELSE IF (p - 1) \in nullRowIndices
  THEN KeepFirst(rows, nullRowIndices, cols, p + 1, seen)
  ELSE LET r == KeepFirstCols(rows[p], cols, 1, seen) IN
       (IF r.keep THEN <<p>> ELSE <<>>)
       \o KeepFirst(rows, nullRowIndices, cols, p + 1, r.seen)

\* lastIndices.get(key) after the first pass: the last position, among the
\* rows without null violation, that set the key; 0 when no row did.
LastIndex(rows, nullRowIndices, cols, key) ==
  LET hits == {p \in 1..Len(rows) :
                 /\ (p - 1) \notin nullRowIndices
                 /\ \E k \in 1..Len(cols) : ValueKey(cols[k], rows[p][cols[k]]) = key}
  IN IF hits = {} THEN 0 ELSE CHOOSE p \in hits : \A q \in hits : q <= p

\* repairRows2 = tableData.filter(...): the positions retained by keep-last.
KeepLast(rows, nullRowIndices, cols) ==
  LET keep == [p \in 1..Len(rows) |->
                 /\ (p - 1) \notin nullRowIndices
                 /\ \A k \in 1..Len(cols) :
                      p = LastIndex(rows, nullRowIndices, cols,
                                    ValueKey(cols[k], rows[p][cols[k]]))]
  IN SelectIdx(keep, 1, Len(rows))

\* Mutant of RowsAt: each kept row is put in front of the ones kept before.
RowsAtUnshift(rows, positions) ==
  [k \in 1..Len(positions) |-> rows[positions[Len(positions) + 1 - k]]]

\* The rows at the given positions, in that order (what filter returns).
RowsAt(rows, positions) == [k \in 1..Len(positions) |-> rows[positions[k]]]

\* Mutant of areRepairsIdentical: the lengths alone are compared.
areRepairsSameLength(rows1, rows2) == Len(rows1) = Len(rows2)

\* areRepairsIdentical: same length and every column strictly equal.
areRepairsIdentical(rows1, rows2) ==
  /\ Len(rows1) = Len(rows2)
  /\ \A k \in 1..Len(rows1) : \A c \in ColSet : rows1[k][c] = rows2[k][c]

generateGeneralRepairs(violations, rows) ==
  IF Len(violations) = 0 THEN <<>>
  ELSE
    LET nullViolations == WithMsg(violations, NullMsg)
        duplicateViolations == WithMsg(violations, DupMsg)
        duplicateViolatedCols == ViolatedCols(duplicateViolations)
        nullRowIndices == RowIndices(nullViolations)
    IN
    IF Len(duplicateViolations) = 0 /\ Len(nullViolations) = 0 THEN <<>>
    ELSE IF Len(duplicateViolations) = 0
    THEN LET keep == SelectIdx([p \in 1..Len(rows) |-> (p - 1) \notin nullRowIndices],
                               1, Len(rows))
         IN << Candidate("_repair_1", RowsAt(rows, keep), keep, FALSE, <<>>) >>
    ELSE
      LET first == KeepFirst(rows, nullRowIndices, duplicateViolatedCols, 1, {})
          last == KeepLast(rows, nullRowIndices, duplicateViolatedCols)
          repairRows1 == RowsAt(rows, first)
          repairRows2 == RowsAt(rows, last)
      IN << Candidate("_repair_1", repairRows1, first, FALSE, <<>>) >>
         \o (IF areRepairsIdentical(repairRows1, repairRows2) THEN <<>>
             ELSE << Candidate("_repair_2", repairRows2, last, FALSE, <<>>) >>)

\* pkCols: the names of the columns whose constraint set has `primary`;
\* none when the table has no first row to take the names from.
PkCols(rows, constraints) ==
  IF Len(rows) = 0 THEN <<>>
  ELSE LET keys == ObjectKeys(rows[1])
           idx == SelectIdx([k \in 1..Len(constraints) |->
                               "primary" \in constraints[k] /\ k <= Len(keys)],
                            1, Len(constraints))
       IN [k \in 1..Len(idx) |-> keys[idx[k]]]

\* pkCols.map(col => row[col]).join('||'), as the tuple of joined texts.
GroupKey(row, pkCols) == [k \in 1..Len(pkCols) |-> JoinString(row[pkCols[k]])]

\* A property name that is an array index: Object.values lists these first.
\* "1" is the only such text of the value universe, so their ascending
\* order needs no sort here.
IsIntegerKey(key) == Len(key) = 1 /\ IsIntegerText(key[1])

\* Object.values(pkGroups): the groups in property order, each the
\* tableData positions of its rows in insertion order.
GroupChoices(rows, pkCols) ==
  LET keys == FirstOccurrences([p \in 1..Len(rows) |-> GroupKey(rows[p], pkCols)])
      ordered == SelectSeq(keys, IsIntegerKey)
                 \o SelectSeq(keys, LAMBDA k : ~IsIntegerKey(k))
  IN [g \in 1..Len(ordered) |->
        SelectIdx([p \in 1..Len(rows) |-> GroupKey(rows[p], pkCols) = ordered[g]],
                  1, Len(rows))]

RECURSIVE cartesian(_)
\* arr.reduce((a, b) => a.flatMap(d => b.map(e => [].concat(d, e))), [[]])
cartesian(arr) ==
  IF arr = <<>> THEN << <<>> >>
  ELSE LET a == cartesian(SubSeq(arr, 1, Len(arr) - 1))
           b == arr[Len(arr)]
       IN Concat([i \in 1..Len(a) |-> [j \in 1..Len(b) |-> Append(a[i], b[j])]])

\* rows.filter(row => every non-key column is non-empty), on positions.
FilterNonKeyNull(rows, pkCols, positions) ==
  LET ok == [k \in 1..Len(positions) |->
               \A c \in ColSet : c \in Range(pkCols) \/ ~IsEmpty(rows[positions[k]][c])]
      idx == SelectIdx(ok, 1, Len(positions))
  IN [k \in 1..Len(idx) |-> positions[idx[k]]]

RECURSIVE CollectRepairs(_, _, _, _, _, _)
\* allRepairs.forEach((rows, idx) => ...) with the seenRepairs Set, whose
\* keys JSON.stringify(filteredRows.map(r => Object.values(r))) tell two
\* row lists apart exactly when some value differs.
CollectRepairs(rows, pkCols, nGroups, allRepairs, idx, seenRepairs) ==
  IF idx > Len(allRepairs) THEN <<>>
  ELSE
    LET filtered == FilterNonKeyNull(rows, pkCols, allRepairs[idx])
        key == RowsAt(rows, filtered)
    IN IF Len(allRepairs[idx]) # nGroups \/ Len(filtered) = 0 \/ key \in seenRepairs
       THEN CollectRepairs(rows, pkCols, nGroups, allRepairs, idx + 1, seenRepairs)
       ELSE << Candidate("_repair_" \o ToString(idx), key, filtered, FALSE, <<>>) >>
            \o CollectRepairs(rows, pkCols, nGroups, allRepairs, idx + 1,
                              seenRepairs \cup {key})

generatePrimaryKeyRepairs(rows, constraints) ==
  LET pkCols == PkCols(rows, constraints) IN
  IF Len(pkCols) = 0 THEN <<>>
  ELSE LET groupChoices == GroupChoices(rows, pkCols)
       IN CollectRepairs(rows, pkCols, Len(groupChoices), cartesian(groupChoices), 1, {})

\* `${v.col}: ${v.msg}`
Reason(v) == <<v.col, v.msg>>

\* {...row, _needsEdit, _violationReasons}
AnnotatedRow(row, needsEdit, reasons) ==
  [c \in ColSet \cup {"_needsEdit", "_violationReasons"} |->
     IF c = "_needsEdit" THEN needsEdit
     ELSE IF c = "_violationReasons" THEN reasons
     ELSE row[c]]

\* Mutant of ReasonsOf: the 1-based violation row is taken for the index.
ReasonsOfOneBased(violations, idx) ==
  LET mine == SelectSeq(violations, LAMBDA v : v.row = idx)
  IN [k \in 1..Len(mine) |-> Reason(mine[k])]

\* The reasons of the violations among `violations` on 0-based row idx.
ReasonsOf(violations, idx) ==
  LET mine == SelectSeq(violations, LAMBDA v : v.row - 1 = idx)
  IN [k \in 1..Len(mine) |-> Reason(mine[k])]

\* The indices, within a candidate's own rows, of the rows with _needsEdit.
EditableRowIndices(annotated) ==
  LET pos == SelectIdx([k \in 1..Len(annotated) |-> annotated[k]["_needsEdit"]],
                       1, Len(annotated))
  IN [k \in 1..Len(pos) |-> pos[k] - 1]

RECURSIVE PartialKeepFirstNullFirst(_, _, _, _, _, _)
\* Mutant of PartialKeepFirst: rows with a null violation are dropped before
\* the type violations are looked at.
PartialKeepFirstNullFirst(rows, typeViolatedRows, nullRowIndices, cols, p, seen) ==
  IF p > Len(rows) THEN <<>>
  ELSE IF (p - 1) \in nullRowIndices
  THEN PartialKeepFirstNullFirst(rows, typeViolatedRows, nullRowIndices, cols, p + 1, seen)
  ELSE IF (p - 1) \in typeViolatedRows
  THEN <<p>> \o PartialKeepFirstNullFirst(rows, typeViolatedRows, nullRowIndices, cols,
                                          p + 1, seen)
  ELSE LET r == KeepFirstCols(rows[p], cols, 1, seen) IN
       (IF r.keep THEN <<p>> ELSE <<>>)
       \o PartialKeepFirstNullFirst(rows, typeViolatedRows, nullRowIndices, cols,
                                    p + 1, r.seen)

RECURSIVE PartialKeepFirst(_, _, _, _, _, _)
\* partialRepair1 = tableData.filter(...): rows with a type violation pass
\* before any key is looked at or recorded.
PartialKeepFirst(rows, typeViolatedRows, nullRowIndices, cols, p, seen) ==
  IF p > Len(rows) THEN <<>>
  ELSE IF (p - 1) \in typeViolatedRows
  THEN <<p>> \o PartialKeepFirst(rows, typeViolatedRows, nullRowIndices, cols, p + 1, seen)
  ELSE IF (p - 1) \in nullRowIndices
  THEN PartialKeepFirst(rows, typeViolatedRows, nullRowIndices, cols, p + 1, seen)
  ELSE LET r == KeepFirstCols(rows[p], cols, 1, seen) IN
       (IF r.keep THEN <<p>> ELSE <<>>)
       \o PartialKeepFirst(rows, typeViolatedRows, nullRowIndices, cols, p + 1, r.seen)

\* partialRepair2 = tableData.filter(...).
PartialKeepLast(rows, typeViolatedRows, nullRowIndices, cols) ==
  LET keep == [p \in 1..Len(rows) |->
                 \/ (p - 1) \in typeViolatedRows
                 \/ /\ (p - 1) \notin nullRowIndices
                    /\ \A k \in 1..Len(cols) :
                         p = LastIndex(rows, nullRowIndices, cols,
                                       ValueKey(cols[k], rows[p][cols[k]]))]
  IN SelectIdx(keep, 1, Len(rows))

\* rowsNeedingEdit: the kept rows annotated from the type violations of the
\* tableData row each one is.
MarkTypeRows(rows, positions, typeViolations) ==
  [k \in 1..Len(positions) |->
     AnnotatedRow(rows[positions[k]],
                  (positions[k] - 1) \in RowIndices(typeViolations),
                  ReasonsOf(typeViolations, positions[k] - 1))]

\* Mutant of MarkAllRows: the rows are annotated from the type violations
\* alone.
MarkAllRowsTypeOnly(rows, violations) ==
  LET typeViolations == SelectSeq(violations, LAMBDA v : v.type = "TYPE MISMATCH")
  IN [p \in 1..Len(rows) |->
        AnnotatedRow(rows[p], (p - 1) \in RowIndices(typeViolations),
                     ReasonsOf(typeViolations, p - 1))]

\* customRepairRows: every row annotated from all the violations on it.
MarkAllRows(rows, violations) ==
  [p \in 1..Len(rows) |->
     AnnotatedRow(rows[p],
                  \E k \in 1..Len(violations) : violations[k].row - 1 = p - 1,
                  ReasonsOf(violations, p - 1))]

\* generatePartialRepairs(violations, tableData, selectedFile,
\*                        confirmedTypes): each candidate stores the types it
\* was given (types: confirmedTypes).
generatePartialRepairs(violations, rows, types) ==
  IF Len(violations) = 0 THEN <<>>
  ELSE
    LET nullViolations == WithMsg(violations, NullMsg)
        duplicateViolations == WithMsg(violations, DupMsg)
        typeViolations ==
          SelectSeq(violations, LAMBDA v : v.msg = TypeMsg \/ v.type = "TYPE MISMATCH")
        nullRowIndices == RowIndices(nullViolations)
        typeViolatedRows == RowIndices(typeViolations)
        cols == ViolatedCols(duplicateViolations)
        all == [p \in 1..Len(rows) |-> p]
        first == PartialKeepFirst(rows, typeViolatedRows, nullRowIndices, cols, 1, {})
        last == PartialKeepLast(rows, typeViolatedRows, nullRowIndices, cols)
        rowsNeedingEdit == MarkTypeRows(rows, first, typeViolations)
        rowsNeedingEdit2 == MarkTypeRows(rows, last, typeViolations)
        customRepairRows == MarkAllRows(rows, violations)
    IN
    IF Len(typeViolations) = 0 THEN <<>>
    ELSE (IF Len(duplicateViolations) > 0 \/ Len(nullViolations) > 0
          THEN << Typed(Candidate("_partial_repair_1", rowsNeedingEdit, first, TRUE,
                                  EditableRowIndices(rowsNeedingEdit)), types),
                  Typed(Candidate("_partial_repair_2", rowsNeedingEdit2, last, TRUE,
                                  EditableRowIndices(rowsNeedingEdit2)), types) >>
          ELSE <<>>)
         \o << Typed(Candidate("_partial_repair_custom", customRepairRows, all, TRUE,
                               EditableRowIndices(customRepairRows)), types) >>

\* Mutant of ValidRows: the 1-based violation rows are taken for indices.
ValidRowsOneBased(foreignRows, violationsFK) ==
  SelectIdx([p \in 1..Len(foreignRows) |-> (p - 1) \notin Range(violationsFK)],
            1, Len(foreignRows))

\* validRows = foreignTable.rows.filter((_, index) =>
\* !violatingRowIndices.has(index)), as positions of foreignTable.rows.
ValidRows(foreignRows, violationsFK) ==
  LET violatingRowIndices == {violationsFK[k] - 1 : k \in 1..Len(violationsFK)}
  IN SelectIdx([p \in 1..Len(foreignRows) |-> (p - 1) \notin violatingRowIndices],
               1, Len(foreignRows))

\* generateForeignKeyRepairs(foreignKeyConfig, fileTables, confirmedConstraints)
generateForeignKeyRepairs(config, tables, constraints) ==
  IF config.referencedFile \notin DOMAIN tables \/ config.primaryFile \notin DOMAIN tables
  THEN <<>>
  ELSE
    LET foreignTable == tables[config.referencedFile]
        primaryTable == tables[config.primaryFile]
        pkCol == PkCol(primaryTable, constraints)
        violationsFK == checkForeignKeyViolations(foreignTable.rows, primaryTable.rows,
                                                  config.fkCol, pkCol)
        valid == ValidRows(foreignTable.rows, violationsFK)
        all == [p \in 1..Len(foreignTable.rows) |-> p]
    IN IF Len(violationsFK) = 0 THEN <<>>
       ELSE << Named(Candidate("_repair_delete", RowsAt(foreignTable.rows, valid), valid,
                               FALSE, <<>>),
                     config.referencedFile, foreignTable.columns, TRUE),
               Named(Candidate("_repair_custom", foreignTable.rows, all, FALSE, <<>>),
                     config.referencedFile, foreignTable.columns, TRUE) >>

(***************************************************************************)
(* checkRepairFileViolations                                               *)
(***************************************************************************)
\* `Invalid ${dataType} value: "${val}"`, up to the value.
InvalidMsg(dataType) == "Invalid " \o dataType \o " value"

\* The passes of checkRepairFileViolations over the column at index idx of
\* the candidate's column list.
RepairColumnPasses(rows, columns, constraints, types, idx) ==
  LET col == columns[idx]
      cons == IF idx <= Len(constraints) THEN constraints[idx] ELSE {}
      dataType == IF idx <= Len(types) THEN types[idx] ELSE "VARCHAR"
      bad == [p \in 1..Len(rows) |-> ~validateDataType(rows[p][col], dataType)]
      badIdx == SelectIdx(bad, 1, Len(rows))
  IN [k \in 1..Len(badIdx) |->
        Violation(badIdx[k], col, "TYPE MISMATCH", InvalidMsg(dataType))]
     \o (IF "primary" \in cons THEN PrimaryPass(rows, col) ELSE <<>>)
     \o (IF "unique" \in cons THEN UniquePass(rows, col) ELSE <<>>)
     \o (IF "notnull" \in cons THEN NotNullPass(rows, col) ELSE <<>>)

\* name.includes('_repair_custom'), on the candidate names of the model.
IncludesRepairCustom(name) == name \in {"_repair_custom", "_partial_repair_custom"}

\* isReferencedTable: the candidate's name is the referencing file's name,
\* or has _repair_custom and is that name once '_repair_custom.csv' is cut.
IsReferencedTable(repairFile, config) ==
  \/ FullName(repairFile) = config.referencedFile
  \/ /\ IncludesRepairCustom(repairFile.name)
     /\ repairFile.file
          \o (IF repairFile.name = "_partial_repair_custom" THEN "_partial" ELSE "")
          = config.referencedFile

\* pkCol of checkRepairFileViolations: the first column of the referenced
\* table; "" (null) for a table without columns.
RepairPkCol(primaryTable, constraints) ==
  IF Len(primaryTable.columns) = 0 THEN "" ELSE primaryTable.columns[1]

\* The foreign-key block of checkRepairFileViolations.
RepairForeignKeyCheck(repairFile, constraints, tables, config) ==
  IF config.primaryFile = "" \/ config.fkCol = "" \/ config.referencedFile = ""
  THEN <<>>
  ELSE IF config.primaryFile \notin DOMAIN tables \/ ~IsReferencedTable(repairFile, config)
  THEN <<>>
  ELSE LET primaryTable == tables[config.primaryFile]
           pkCol == RepairPkCol(primaryTable, constraints)
           fkViolations == checkForeignKeyViolations(repairFile.rows, primaryTable.rows,
                                                     config.fkCol, pkCol)
       IN [k \in 1..Len(fkViolations) |->
             Violation(fkViolations[k], config.fkCol, "FOREIGN KEY",
                       ForeignKeyMsg(repairFile.rows[fkViolations[k]][config.fkCol],
                                     config.primaryFile, pkCol))]

\* typesToUse = repairFile.types || confirmedTypes: the types a partial
\* candidate stores, the confirmed types for a candidate that stores none.
TypesToUse(repairFile, types) ==
  IF "types" \in DOMAIN repairFile THEN repairFile.types ELSE types

\* checkRepairFileViolations(repairFile, confirmedConstraints, fileTables,
\*                          foreignKeyConfig, confirmedTypes)
checkRepairFileViolations(repairFile, constraints, tables, config, types) ==
  Concat([idx \in 1..Len(repairFile.columns) |->
            RepairColumnPasses(repairFile.rows, repairFile.columns, constraints,
                               TypesToUse(repairFile, types), idx)])
  \o RepairForeignKeyCheck(repairFile, constraints, tables, config)

\* editModal's entry while no dialog is open (entry: null): no column is
\* read from it.
EmptyRow == [c \in {} |-> Null]

\* The entry object is no row object of an uploaded table.
NoOrigin == [file |-> "", idx |-> 0]

\* editModal = { show: false, entry: null, columns: [] }.  `values` are the
\* properties of the entry object; `origin` tells which row object of which
\* uploaded table the entry object is, if any; `at` tells, for each
\* candidate, the position at which the entry object itself is among its
\* rows (0: not).
ClosedModal ==
  [show |-> FALSE, values |-> EmptyRow, columns |-> <<>>, violationCols |-> {},
   origin |-> NoOrigin, at |-> <<>>]

(***************************************************************************)
(* State machine                                                           *)
(***************************************************************************)
Tables == UNION {[1..n -> Rows] : n \in 0..MaxRows}

Init ==
  /\ tableData \in Tables
  /\ confirmedConstraints \in
       {cs \in [1..Len(Columns) -> SUBSET {"primary", "unique", "notnull"}] :
          \A k \in 1..Len(Columns) : cs[k] \in ColumnConstraints[Columns[k]]}
  /\ confirmedTypes \in
       {ts \in [1..Len(Columns) -> {"VARCHAR", "INT", "number", "string"}] :
          \A k \in 1..Len(Columns) :
            ts[k] \in ColumnTypes[Columns[k]] \cup {detectTypes(tableData, Columns)[k]}}
  /\ fileTables = [f \in {"table.csv"} |-> [rows |-> tableData, columns |-> Columns]]
  /\ foreignKeyConfig = ConfirmConfig(NoForeignKey, "table.csv", Columns,
                                      confirmedConstraints)
  /\ checkResults = <<>>
  /\ repairFiles = <<>>
  /\ generated = <<>>
  /\ deleteIndex = -1
  /\ updated = <<>>
  /\ selectedRepairFile = ""
  /\ customUndoStack = <<>>
  /\ stackOwners = <<>>
  /\ history = <<>>
  /\ undoExpected = [known |-> FALSE, rows |-> <<>>]
  /\ steps = 0
  /\ editModal = ClosedModal
  /\ effectPending = FALSE
  /\ fileEffectPending = FALSE
  /\ timers = <<>>
  /\ selectedFile = "table.csv"
  /\ repairTriggered = FALSE
  /\ pc = "loaded"

\* handleCheckRepair with no repair triggered: store checkViolationsLocal().
HandleCheck ==
  /\ pc = "loaded"
  /\ checkResults' = checkViolations(tableData, confirmedConstraints, fileTables, foreignKeyConfig, confirmedTypes)
  /\ pc' = "checked"
  /\ UNCHANGED <<tableData, confirmedConstraints, confirmedTypes, fileTables,
                 foreignKeyConfig, repairFiles, generated, deleteIndex, updated>>
  /\ UNCHANGED session

\* updateViolationsAfterDelete applied to the stored violations for the
\* deletion of the row at 0-based index d of the table.
TrackDelete(d) ==
  /\ pc = "checked"
  /\ deleteIndex' = d
  /\ updated' = updateViolationsAfterDelete(checkResults, d)
  /\ pc' = "tracked"
  /\ UNCHANGED <<tableData, confirmedConstraints, confirmedTypes, fileTables,
                 foreignKeyConfig, checkResults, repairFiles, generated>>
  /\ UNCHANGED session

\* generatePrimaryKeyRepairs applied to the table.
PrimaryKeyRepairs ==
  /\ pc = "checked"
  /\ generated' = generatePrimaryKeyRepairs(tableData, confirmedConstraints)
  /\ pc' = "primary"
  /\ UNCHANGED <<tableData, confirmedConstraints, confirmedTypes, fileTables,
                 foreignKeyConfig, checkResults, repairFiles, deleteIndex, updated>>
  /\ UNCHANGED session

\* generatePartialRepairs applied to the stored violations and the table.
PartialRepairs ==
  /\ pc = "checked"
  /\ generated' = generatePartialRepairs(checkResults, tableData, confirmedTypes)
  /\ pc' = "partial"
  /\ UNCHANGED <<tableData, confirmedConstraints, confirmedTypes, fileTables,
                 foreignKeyConfig, checkResults, repairFiles, deleteIndex, updated>>
  /\ UNCHANGED session

\* generateGeneralRepairs applied to the stored violations and the table.
GeneralRepairs ==
  /\ pc = "checked"
  /\ generated' = generateGeneralRepairs(checkResults, tableData)
  /\ pc' = "general"
  /\ UNCHANGED <<tableData, confirmedConstraints, confirmedTypes, fileTables,
                 foreignKeyConfig, checkResults, repairFiles, deleteIndex, updated>>
  /\ UNCHANGED session

\* Detection followed by one of the repair generators.
Next ==
  \/ HandleCheck
  \/ PrimaryKeyRepairs
  \/ PartialRepairs
  \/ GeneralRepairs

Spec == Init /\ [][Next]_vars

\* Detection followed by the position tracker for one deleted row.
NextTrack ==
  \/ HandleCheck
  \/ \E d \in 0..(Len(tableData) - 1) : TrackDelete(d)

SpecTrack == Init /\ [][NextTrack]_vars

(***************************************************************************)
(* Two uploaded tables joined by a foreign-key link.  foreign.csv holds    *)
(* the foreign-key column a, primary.csv is the table it refers to.        *)
(***************************************************************************)
\* The values drawn for the columns of the two tables.
ForeignValues == [id |-> {T1}, a |-> {Empty, N1, TSp, Tx}]
PrimaryValues == [id |-> {TSp, Tx}, a |-> {Tx}]

TablesOver(values) ==
  UNION {[1..n -> {r \in [ColSet -> Values] : \A c \in ColSet : r[c] \in values[c]}] :
           n \in 0..MaxRows}

\* The constraint sets and types confirmed last, per column index: those of
\* the referencing table with the types detectTypes found or with an
\* integer type chosen for the linked column, or those of the table with
\* the referenced key with the types detectTypes found.
ForeignKeySettings(tables) ==
  { [constraints |-> << {}, {"foreign"} >>,
     types |-> detectTypes(tables["foreign.csv"].rows, Columns)],
    [constraints |-> << {"primary"}, {"foreign", "notnull"} >>,
     types |-> <<"VARCHAR", "INT">>],
    [constraints |-> << {}, {"primary"} >>,
     types |-> detectTypes(tables["primary.csv"].rows, Columns)] }

\* Both tables uploaded and the link configured.
LinkConfirmed ==
  /\ fileTables \in
       {[f \in {"primary.csv", "foreign.csv"} |->
           [rows |-> IF f = "primary.csv" THEN pr ELSE fr, columns |-> Columns]] :
          pr \in TablesOver(PrimaryValues), fr \in TablesOver(ForeignValues)}
  /\ foreignKeyConfig =
       [primaryFile |-> "primary.csv", fkCol |-> "a", referencedFile |-> "foreign.csv"]
  /\ \E st \in ForeignKeySettings(fileTables) :
       confirmedConstraints = st.constraints /\ confirmedTypes = st.types
  /\ checkResults = <<>>
  /\ repairFiles = <<>>
  /\ generated = <<>>
  /\ deleteIndex = -1
  /\ updated = <<>>
  /\ selectedRepairFile = ""
  /\ customUndoStack = <<>>
  /\ stackOwners = <<>>
  /\ history = <<>>
  /\ undoExpected = [known |-> FALSE, rows |-> <<>>]
  /\ steps = 0
  /\ editModal = ClosedModal
  /\ effectPending = FALSE
  /\ fileEffectPending = FALSE
  /\ timers = <<>>
  /\ repairTriggered = FALSE
  /\ pc = "loaded"

\* The table shown is one of the two linked tables.
InitFK ==
  /\ LinkConfirmed
  /\ selectedFile \in {"primary.csv", "foreign.csv"}
  /\ tableData = fileTables[selectedFile].rows

\* generateForeignKeyRepairs applied to the configured link.
ForeignKeyRepairs ==
  /\ pc = "checked"
  /\ generated' = generateForeignKeyRepairs(foreignKeyConfig, fileTables,
                                             confirmedConstraints)
  /\ pc' = "foreign"
  /\ UNCHANGED <<tableData, confirmedConstraints, confirmedTypes, fileTables,
                 foreignKeyConfig, checkResults, repairFiles, deleteIndex, updated>>
  /\ UNCHANGED session

\* Detection followed by one of the four repair generators.
NextFK ==
  \/ HandleCheck
  \/ ForeignKeyRepairs
  \/ PrimaryKeyRepairs
  \/ PartialRepairs
  \/ GeneralRepairs

SpecFK == InitFK /\ [][NextFK]_vars

(***************************************************************************)
(* The functions called with a degenerate table, as a caller of the        *)
(* module can: the upload stores no row without columns, checkViolations   *)
(* and the generators take any array of row objects.                       *)
(***************************************************************************)
\* A row object without any column: {}.
RowWithoutColumns == [c \in {} |-> Empty]

\* tableData = [] and tableData = [{}].
DegenerateTables == { <<>>, <<RowWithoutColumns>> }

\* The arguments of the call: a degenerate table with the constraints, types,
\* tables and link of two uploaded files.
InitDirect ==
  /\ LinkConfirmed
  /\ selectedFile = ""
  /\ tableData \in DegenerateTables

SpecDirect == InitDirect /\ [][NextFK]_vars

(***************************************************************************)
(* The editing session of App: the repair trigger, the check and clear     *)
(* buttons, the confirmation of a further upload, the selection of a file  *)
(* and of a candidate, and edit, cancel, save, delete and undo on the      *)
(* selected candidate.  The stored violations are refreshed by the effect  *)
(* on the selection and the candidates and by the zero-delay timers that   *)
(* the handlers set; the effect reads the current state, a timer the       *)
(* render its handler closed over.  A handler can run while the effect or  *)
(* a timer is still due.                                                   *)
(***************************************************************************)
\* Largest number of rows of a table repaired in a session.
MaxSessionRows == 2

\* Largest number of session actions after the first repair trigger.
MaxSteps == 4

\* The values drawn for the columns of the table repaired in a session; the
\* key of its first row is '1'.
SessionValues == [id |-> {T1, Tx}, a |-> {Empty, T1, Tx}]

SessionTables ==
  UNION {{t \in [1..n -> {r \in [ColSet -> Values] :
                            \A c \in ColSet : r[c] \in SessionValues[c]}] :
            n = 0 \/ t[1].id = T1} :
           n \in 0..MaxSessionRows}

\* The constraint sets and types confirmed last for a table with the given
\* rows: a key on id with the types as detectTypes found them, or UNIQUE and
\* NOT NULL with an integer type chosen for a.
SessionSettings(rows) ==
  { [constraints |-> << {"primary"}, {} >>, types |-> detectTypes(rows, Columns)],
    [constraints |-> << {"unique"}, {"notnull"} >>, types |-> <<"VARCHAR", "INT">>] }

\* The texts typed into a field of the edit form.
TypedValues == {T1, Tx}

\* Largest number of zero-delay timers waiting at a time.
MaxTimers == 2

\* The file uploaded and confirmed in the course of a session.
UploadRows == << [id |-> T1, a |-> T1] >>

Uploads ==
  { [file |-> "other.csv", rows |-> UploadRows, columns |-> Columns,
     constraints |-> << {}, {} >>, types |-> detectTypes(UploadRows, Columns)] }

\* Mutant of addCustomRepairOption: the custom candidate is put first.
addCustomRepairOptionFirst(repairFileObjs, rows) ==
  << Candidate("_repair_custom", rows, [p \in 1..Len(rows) |-> p], FALSE, <<>>) >>
  \o repairFileObjs

\* addCustomRepairOption(repairFileObjs, tableData, selectedFile): pushes a
\* candidate whose rows are copies of all table rows.
addCustomRepairOption(repairFileObjs, rows) ==
  Append(repairFileObjs,
         Candidate("_repair_custom", rows, [p \in 1..Len(rows) |-> p], FALSE, <<>>))

\* foreignKeyConfig && primaryFile && fkCol && referencedFile
ForeignKeyLinked(config) ==
  config.primaryFile # "" /\ config.fkCol # "" /\ config.referencedFile # ""

\* repairFiles.find(f => f.name === selectedRepairFile): the position of the
\* first candidate with that name, 0 when there is none.
FindRepairFile(files, name) ==
  LET hits == {n \in 1..Len(files) : files[n].name = name}
  IN IF hits = {} THEN 0 ELSE CHOOSE n \in hits : \A m \in hits : n <= m

\* isCustomRepair || (repairFileObj && repairFileObj.isPartialRepair)
Editable(files, name) ==
  LET n == FindRepairFile(files, name)
  IN n # 0 /\ (IncludesRepairCustom(files[n].name) \/ files[n].isPartialRepair)

\* name.includes('_repair_custom') || name.includes('_partial_repair_')
IsCheckable(name) ==
  \/ IncludesRepairCustom(name)
  \/ name \in {"_partial_repair_1", "_partial_repair_2", "_partial_repair_custom"}

\* delete cleanRow._needsEdit; delete cleanRow._violationReasons
CleanRow(row) == [c \in DOMAIN row \ {"_needsEdit", "_violationReasons"} |-> row[c]]

\* tableDataToShow: the rows handed to the table view, whose row objects are
\* the entries that edit and delete receive.
TableDataToShow(c) ==
  IF c.isPartialRepair THEN [k \in 1..Len(c.rows) |-> CleanRow(c.rows[k])]
  ELSE c.rows

\* calculateViolationPositions(tableViolations).violationCols
ViolationCols(violations) == {violations[k].col : k \in 1..Len(violations)}

\* The position at which the row object `origin` of an uploaded table is
\* among the rows of a candidate, 0 if it is not.
PositionOf(c, origin) ==
  IF c.shared /\ origin.idx > 0 /\ c.file = origin.file
  THEN LET hits == {k \in 1..Len(c.from) : c.from[k] = origin.idx}
       IN IF hits = {} THEN 0 ELSE CHOOSE k \in hits : TRUE
  ELSE 0

\* Which row object of an uploaded table the row shown at position p of
\* candidate c is: none for a partial candidate, whose shown rows are
\* copies, and none for a row object made in the session.
OriginOf(c, p) ==
  IF ~c.isPartialRepair /\ c.shared /\ c.from[p] > 0
  THEN [file |-> c.file, idx |-> c.from[p]]
  ELSE NoOrigin

\* The positions at which the row object shown at position p of candidate n
\* is among the rows of each candidate.
EntryAt(files, n, p) ==
  [m \in 1..Len(files) |->
     IF files[n].isPartialRepair THEN 0
     ELSE IF m = n THEN p
     ELSE PositionOf(files[m], OriginOf(files[n], p))]

\* The edit form after the candidate list was replaced by `files`: the
\* entry object is among their rows where they hold the same table row.
Reopened(modal, files) ==
  IF modal.show
  THEN [modal EXCEPT !.at = [m \in 1..Len(files) |-> PositionOf(files[m], modal.origin)]]
  ELSE modal

\* fileObj.rows.findIndex(...) for an entry with the given properties that
\* is at position `at` of the rows (0: nowhere): a partial candidate is
\* searched for the first row with the entry's column values, any other for
\* the entry object itself.  0 stands for -1.
FindEntryIndex(c, values, at) ==
  IF c.isPartialRepair
  THEN LET hits == {k \in 1..Len(c.rows) :
                      \A i \in 1..Len(c.columns) :
                        c.rows[k][c.columns[i]] = values[c.columns[i]]}
       IN IF hits = {} THEN 0 ELSE CHOOSE k \in hits : \A j \in hits : k <= j
  ELSE at

\* validateEntry(newEntry, columns, colTypes).isValid
validateEntry(newEntry, columns, colTypes) ==
  \A i \in 1..Len(columns) : ~(colTypes[i] = "number" /\ IsNaN(newEntry[columns[i]]))

\* mapSqlTypeToValidationType(sqlType)
mapSqlTypeToValidationType(sqlType) ==
  LET type == ToUpperCase(sqlType) IN
    IF type \in {"INT", "INTEGER", "BIGINT"} THEN "integer"
    ELSE IF type \in {"FLOAT", "DOUBLE", "DECIMAL", "NUMERIC"} THEN "number"
    ELSE IF type \in {"BOOLEAN", "BOOL"} THEN "boolean"
    ELSE IF type \in {"DATE", "DATETIME", "TIMESTAMP"} THEN "date"
    ELSE "string"

\* form[col] || '' for the values a form of a session holds (null, '' and
\* non-empty texts).
FormText(val) == IF val \in {Null, Empty} THEN "" ELSE String(val)

\* validateType(val, type) of the edit form.
validateType(text, type) ==
  IF Trim(text) = "" THEN TRUE
  ELSE CASE type = "number" -> IsNumberText(Trim(text))
         [] type = "integer" -> IsIntegerText(Trim(text))
         [] type = "boolean" -> IsBooleanText(Trim(text))
         [] type = "date" -> IsDateText(Trim(text))
         [] OTHER -> TRUE

\* validateForm() of the edit form: every field that can be typed into is
\* non-empty if its column is NOT NULL and fits the declared type.  A number
\* in such a field has no trim(): the submit throws and nothing is saved.
validateForm(form, columns, violationCols, types, constraints) ==
  \A idx \in 1..Len(columns) :
    LET col == columns[idx]
        value == FormText(form[col])
        sqlType == IF idx <= Len(types) THEN types[idx] ELSE "VARCHAR"
        columnConstraints == IF idx <= Len(constraints) THEN constraints[idx] ELSE {}
    IN \/ violationCols # {} /\ col \notin violationCols
       \/ /\ form[col][1] # "num"
          /\ ~("notnull" \in columnConstraints /\ Trim(value) = "")
          /\ validateType(value, mapSqlTypeToValidationType(sqlType))

\* The forms the edit form can hold when it is submitted: the properties of
\* the entry, with a typed text in any of the fields that are not disabled
\* (those of violationCols, all if there is none).
FormEntries(modal) ==
  IF ~modal.show THEN {}
  ELSE LET cols == {modal.columns[i] : i \in 1..Len(modal.columns)}
           open(c) == c \in cols /\ (modal.violationCols = {} \/ c \in modal.violationCols)
           typed == {e \in [cols -> Values] :
                       \A c \in cols :
                         IF open(c) THEN e[c] \in {modal.values[c]} \cup TypedValues
                         ELSE e[c] = modal.values[c]}
       IN {[f \in DOMAIN modal.values |-> IF f \in cols THEN e[f] ELSE modal.values[f]] :
             e \in typed}

\* Mutant of JsonClone: the annotations of the rows are not copied.
JsonCloneColumns(rows) == [k \in 1..Len(rows) |-> CleanRow(rows[k])]

\* JSON.parse(JSON.stringify(rows)): new row objects with the same
\* properties; null, strings, numbers, booleans and arrays of strings come
\* back as they went in.
JsonClone(rows) == [k \in 1..Len(rows) |-> [c \in DOMAIN rows[k] |-> rows[k][c]]]

\* prev.map(f => f.name === selectedRepairFile ? {...f, rows} : f); `from`
\* follows the row objects: 0 for a row object made in the session.
WithRows(files, name, rows, from) ==
  [n \in 1..Len(files) |->
     IF files[n].name = name THEN [files[n] EXCEPT !.rows = rows, !.from = from]
     ELSE files[n]]

\* A sequence without its element at position d.
Without(seq, d) ==
  [k \in 1..(Len(seq) - 1) |-> IF k < d THEN seq[k] ELSE seq[k + 1]]

\* The state of the render in which a handler runs, as far as the callbacks
\* it creates read it.
Render ==
  [triggered |-> repairTriggered, selected |-> selectedRepairFile,
   files |-> repairFiles, rows |-> tableData,
   constraints |-> confirmedConstraints, types |-> confirmedTypes,
   tables |-> fileTables, config |-> foreignKeyConfig]

\* A zero-delay timer with what its callback closed over: the render of the
\* handler that set it, the candidate name it tests, the candidates it
\* installs, the position of the deleted entry object among the rows it
\* filters.
Timer(kind, name, render, objs, at) ==
  [kind |-> kind, name |-> name, render |-> render, objs |-> objs, at |-> at]

\* handleCheckRepair as defined in the render r: what it stores as
\* checkResults.
handleCheckRepair(r) ==
  IF r.triggered /\ r.selected # "" /\ FindRepairFile(r.files, r.selected) # 0
  THEN IF IsCheckable(r.selected)
       THEN checkRepairFileViolations(r.files[FindRepairFile(r.files, r.selected)],
                                      r.constraints, r.tables, r.config, r.types)
       ELSE <<>>
  ELSE checkViolations(r.rows, r.constraints, r.tables, r.config, r.types)

InitApp ==
  /\ tableData \in SessionTables
  /\ \E st \in SessionSettings(tableData) :
       /\ confirmedConstraints = st.constraints
       /\ confirmedTypes = st.types
       /\ foreignKeyConfig = ConfirmConfig(NoForeignKey, "table.csv", Columns,
                                           st.constraints)
  /\ fileTables = [f \in {"table.csv"} |-> [rows |-> tableData, columns |-> Columns]]
  /\ selectedFile = "table.csv"
  /\ repairTriggered = FALSE
  /\ checkResults = <<>>
  /\ repairFiles = <<>>
  /\ generated = <<>>
  /\ deleteIndex = -1
  /\ updated = <<>>
  /\ selectedRepairFile = ""
  /\ customUndoStack = <<>>
  /\ stackOwners = <<>>
  /\ history = <<>>
  /\ undoExpected = [known |-> FALSE, rows |-> <<>>]
  /\ steps = 0
  /\ editModal = ClosedModal
  /\ effectPending = FALSE
  /\ fileEffectPending = FALSE
  /\ timers = <<>>
  /\ pc = "loaded"

\* What no step of a session touches.
fixed == <<deleteIndex, updated, generated>>

\* What an upload and the selection of an uploaded file set.
uploaded == <<tableData, confirmedConstraints, confirmedTypes, fileTables,
              foreignKeyConfig, selectedFile, fileEffectPending>>

\* No effect and no timer is due.
Idle == ~effectPending /\ ~fileEffectPending /\ timers = <<>>

\* A repair has produced candidates: they are installed, or the timer that
\* installs them is due.
Started ==
  repairTriggered \/ \E k \in 1..Len(timers) : timers[k].kind = "install"

\* A further handler can run: any before a repair has produced candidates,
\* MaxSteps after.
CanStep == ~Started \/ steps < MaxSteps

\* The handler calls counted since a repair produced candidates.
Stepped == IF Started THEN steps + 1 ELSE steps

\* The candidates handleRepair installs without a foreign-key link:
\* primary-key repairs, else partial repairs, else general repairs; the
\* custom candidate is added unless a partial candidate is there; each gets
\* its file name and columns.  Empty if no repair was generated.
GeneralRepairFiles(rows, constraints, tables, config, types, file) ==
  LET columns == IF Len(rows) = 0 THEN <<>> ELSE ObjectKeys(rows[1])
      pkRepairs == generatePrimaryKeyRepairs(rows, constraints)
      violations == checkViolations(rows, constraints, tables, config, types)
      partialRepairs == generatePartialRepairs(violations, rows, types)
      generalRepairs == generateGeneralRepairs(violations, rows)
      repairFileObjs == IF Len(pkRepairs) > 0 THEN pkRepairs
                        ELSE IF Len(partialRepairs) > 0 THEN partialRepairs
                        ELSE generalRepairs
      hasPartialRepairs ==
        \E n \in 1..Len(repairFileObjs) : repairFileObjs[n].isPartialRepair
      withCustom == IF hasPartialRepairs THEN repairFileObjs
                    ELSE addCustomRepairOption(repairFileObjs, rows)
  IN IF Len(repairFileObjs) = 0 THEN <<>>
     ELSE [n \in 1..Len(withCustom) |->
             Named(withCustom[n], file, columns,
                   ~withCustom[n].isPartialRepair
                   /\ ~IncludesRepairCustom(withCustom[n].name))]

\* handleRepair, called from the Repair button, which the repair panel
\* shows while no repair has installed candidates and violations are
\* stored.  With a complete foreign-key link: the candidates of
\* generateForeignKeyRepairs, installed by a timer if there are any.
\* Without: the candidates of GeneralRepairFiles are installed, the first
\* is selected and a timer refreshes the stored violations.
HandleRepair ==
  /\ CanStep
  /\ ~repairTriggered /\ Len(checkResults) > 0
  /\ \E repairFileObjs \in
         { IF ForeignKeyLinked(foreignKeyConfig)
           THEN generateForeignKeyRepairs(foreignKeyConfig, fileTables,
                                          confirmedConstraints)
           ELSE GeneralRepairFiles(tableData, confirmedConstraints, fileTables,
                                   foreignKeyConfig, confirmedTypes, selectedFile) } :
       IF Len(repairFileObjs) = 0
       THEN /\ pc' = "norepair"
            /\ UNCHANGED <<repairFiles, selectedRepairFile, repairTriggered, history,
                           effectPending, timers, editModal>>
       ELSE IF ForeignKeyLinked(foreignKeyConfig)
       THEN /\ Len(timers) < MaxTimers
            /\ repairFiles' = <<>>
            /\ editModal' = Reopened(editModal, <<>>)
            /\ effectPending' = TRUE
            /\ timers' = Append(timers, Timer("install", "", Render, repairFileObjs, 0))
            /\ pc' = "linking"
            /\ UNCHANGED <<selectedRepairFile, repairTriggered, history>>
       ELSE /\ Len(timers) < MaxTimers
            /\ repairFiles' = repairFileObjs
            /\ selectedRepairFile' = repairFileObjs[1].name
            /\ repairTriggered' = TRUE
            /\ history' = <<>>
            /\ editModal' = Reopened(editModal, repairFileObjs)
            /\ effectPending' = TRUE
            /\ timers' = Append(timers, Timer("check", repairFileObjs[1].name, Render,
                                              <<>>, 0))
            /\ pc' = "repaired"
  /\ steps' = Stepped
  /\ UNCHANGED <<fixed, uploaded, checkResults, customUndoStack, stackOwners,
                 undoExpected>>

\* handleCheckRepair called from the Check Repair button, which the repair
\* panel shows in place of the Repair button.
HandleCheckRepair ==
  /\ CanStep
  /\ repairTriggered \/ Len(checkResults) = 0
  /\ checkResults' = handleCheckRepair(Render)
  /\ steps' = Stepped
  /\ pc' = "checkrepair"
  /\ UNCHANGED <<fixed, repairTriggered, uploaded, repairFiles, selectedRepairFile, customUndoStack,
                 stackOwners, history, undoExpected, editModal, effectPending, timers>>

\* handleClearViolations, called from the close button of the violation
\* list: setCheckResults(null).  The model holds null and the empty list as
\* one value, so closing an empty list changes nothing.
HandleClearViolations ==
  /\ CanStep
  /\ Len(checkResults) > 0
  /\ checkResults' = <<>>
  /\ steps' = Stepped
  /\ pc' = "cleared"
  /\ UNCHANGED <<fixed, repairTriggered, uploaded, repairFiles, selectedRepairFile, customUndoStack,
                 stackOwners, history, undoExpected, editModal, effectPending, timers>>

\* handleModalConfirm for an uploaded file u: the file is stored (in place
\* of a file of that name), selected and shown, its constraints and types
\* become the confirmed ones.  The candidates, their selection and the
\* stored violations stay.
ModalConfirm(u) ==
  /\ CanStep
  /\ fileTables' = [f \in DOMAIN fileTables \cup {u.file} |->
                      IF f = u.file THEN [rows |-> u.rows, columns |-> u.columns]
                      ELSE fileTables[f]]
  /\ selectedFile' = u.file
  /\ tableData' = u.rows
  /\ confirmedConstraints' = u.constraints
  /\ confirmedTypes' = u.types
  /\ foreignKeyConfig' = ConfirmConfig(foreignKeyConfig, u.file, u.columns, u.constraints)
  /\ effectPending' = TRUE
  /\ fileEffectPending' = TRUE
  /\ steps' = Stepped
  /\ pc' = "uploaded"
  /\ UNCHANGED <<fixed, repairTriggered, checkResults, repairFiles, selectedRepairFile, customUndoStack,
                 stackOwners, history, undoExpected, editModal, timers>>

\* FileList onSelect = setSelectedFile; the effect on [selectedFile,
\* fileTables] is due.
SelectFile(f) ==
  /\ CanStep
  /\ f # selectedFile
  /\ selectedFile' = f
  /\ fileEffectPending' = TRUE
  /\ steps' = Stepped
  /\ pc' = "file"
  /\ UNCHANGED <<fixed, repairTriggered, tableData, confirmedConstraints, confirmedTypes,
                 fileTables, foreignKeyConfig, checkResults, repairFiles,
                 selectedRepairFile, customUndoStack, stackOwners, history,
                 undoExpected, editModal, effectPending, timers>>

\* RepairSection onSelect = setSelectedRepairFile; the candidate list is
\* shown once a repair has installed candidates.
SelectRepairFile(n) ==
  /\ CanStep
  /\ repairTriggered
  /\ repairFiles[n].name # selectedRepairFile
  /\ selectedRepairFile' = repairFiles[n].name
  /\ history' = <<>>
  /\ effectPending' = TRUE
  /\ steps' = Stepped
  /\ pc' = "selected"
  /\ UNCHANGED <<fixed, repairTriggered, uploaded, checkResults, repairFiles, customUndoStack,
                 stackOwners, undoExpected, editModal, timers>>

\* duplicateRows of the table view for a custom candidate: the rows that a
\* violation names and the rows that share a non-empty value, as an object
\* key, in a column with a duplicate violation; 0-based.
DuplicateRows(data, violations) ==
  LET dupCols == {violations[k].col :
                    k \in {j \in 1..Len(violations) : violations[j].msg = DupMsg}}
  IN RowIndices(violations)
     \cup {q - 1 : q \in {i \in 1..Len(data) :
              \E col \in dupCols : \E j \in 1..Len(data) :
                /\ j # i
                /\ ~IsEmpty(data[i][col]) /\ ~IsEmpty(data[j][col])
                /\ String(data[i][col]) = String(data[j][col])}}

\* The table view draws the Edit and Delete buttons of the row shown at
\* position p of candidate c: the candidate is custom or partial, and the
\* row is listed in editableRows (needsEditing), named by a violation shown
\* (violationRows) or among the duplicateRows of a custom candidate.
RowButtons(c, violations, p) ==
  /\ IncludesRepairCustom(c.name) \/ c.isPartialRepair
  /\ \/ c.isPartialRepair /\ (p - 1) \in Range(c.editableRows)
     \/ (p - 1) \in RowIndices(violations)
     \/ /\ IncludesRepairCustom(c.name)
        /\ (p - 1) \in DuplicateRows(TableDataToShow(c), violations)

\* handleEditEntry for the entry shown at position p, called from its Edit
\* button: the edit form opens on it, with the columns of the candidate and
\* the columns that the violations shown name.
EditEntry(p) ==
  /\ CanStep
  /\ Editable(repairFiles, selectedRepairFile)
  /\ RowButtons(repairFiles[FindRepairFile(repairFiles, selectedRepairFile)],
                checkResults, p)
  /\ LET n == FindRepairFile(repairFiles, selectedRepairFile)
     IN editModal' = [show |-> TRUE,
                      values |-> TableDataToShow(repairFiles[n])[p],
                      columns |-> repairFiles[n].columns,
                      violationCols |-> ViolationCols(checkResults),
                      origin |-> OriginOf(repairFiles[n], p),
                      at |-> EntryAt(repairFiles, n, p)]
  /\ steps' = Stepped
  /\ pc' = "editing"
  /\ UNCHANGED <<fixed, repairTriggered, uploaded, checkResults, repairFiles, selectedRepairFile,
                 customUndoStack, stackOwners, history, undoExpected, effectPending,
                 timers>>

\* handleCancelEdit
CancelEdit ==
  /\ editModal.show /\ CanStep
  /\ editModal' = ClosedModal
  /\ steps' = Stepped
  /\ pc' = "cancelled"
  /\ UNCHANGED <<fixed, repairTriggered, uploaded, checkResults, repairFiles, selectedRepairFile,
                 customUndoStack, stackOwners, history, undoExpected, effectPending,
                 timers>>

\* The edit form is submitted with newEntry: handleSubmit calls
\* handleSaveEdit if validateForm passes.  The snapshot is pushed before the
\* entry is looked up; a lookup that fails returns with the form still open.
SaveEdit(newEntry) ==
  /\ editModal.show /\ CanStep
  /\ validateForm(newEntry, editModal.columns, editModal.violationCols,
                  confirmedTypes, confirmedConstraints)
  /\ FindRepairFile(repairFiles, selectedRepairFile) # 0
  /\ LET n == FindRepairFile(repairFiles, selectedRepairFile)
         fileObj == repairFiles[n]
         editable == Editable(repairFiles, selectedRepairFile)
         entryIndex == FindEntryIndex(fileObj, editModal.values, editModal.at[n])
         updatedEntry ==
           IF fileObj.isPartialRepair /\ "_needsEdit" \in DOMAIN editModal.values
           THEN AnnotatedRow(newEntry, editModal.values["_needsEdit"],
                             editModal.values["_violationReasons"])
           ELSE newEntry
     IN /\ validateEntry(newEntry, fileObj.columns, confirmedTypes)
        /\ customUndoStack' = IF editable
                              THEN Append(customUndoStack, JsonClone(fileObj.rows))
                              ELSE customUndoStack
        /\ stackOwners' = IF editable THEN Append(stackOwners, selectedRepairFile)
                          ELSE stackOwners
        /\ IF entryIndex = 0
           THEN /\ history' = <<>>
                /\ pc' = "notfound"
                /\ UNCHANGED <<repairFiles, editModal, effectPending>>
           ELSE /\ repairFiles' =
                     WithRows(repairFiles, selectedRepairFile,
                              [fileObj.rows EXCEPT ![entryIndex] = updatedEntry],
                              [fileObj.from EXCEPT ![entryIndex] = 0])
                /\ history' = IF editable THEN Append(history, fileObj.rows) ELSE <<>>
                /\ editModal' = ClosedModal
                /\ effectPending' = TRUE
                /\ pc' = "edited"
  /\ steps' = Stepped
  /\ UNCHANGED <<fixed, repairTriggered, uploaded, checkResults, selectedRepairFile, undoExpected, timers>>

\* handleDeleteEntry for the entry shown at position p, called from its
\* Delete button; its timer closes over the render the entry was shown in.
DeleteEntry(p) ==
  /\ CanStep
  /\ Editable(repairFiles, selectedRepairFile)
  /\ RowButtons(repairFiles[FindRepairFile(repairFiles, selectedRepairFile)],
                checkResults, p)
  /\ LET n == FindRepairFile(repairFiles, selectedRepairFile)
         fileObj == repairFiles[n]
         entry == TableDataToShow(fileObj)[p]
         at == IF fileObj.isPartialRepair THEN 0 ELSE p
         deleteAt == FindEntryIndex(fileObj, entry, at)
     IN /\ customUndoStack' = Append(customUndoStack, JsonClone(fileObj.rows))
        /\ stackOwners' = Append(stackOwners, selectedRepairFile)
        /\ IF deleteAt = 0
           THEN /\ history' = <<>>
                /\ pc' = "notfound"
                /\ UNCHANGED <<repairFiles, editModal, effectPending, timers>>
           ELSE /\ Len(timers) < MaxTimers
                /\ repairFiles' =
                     WithRows(repairFiles, selectedRepairFile,
                              Without(fileObj.rows, deleteAt),
                              Without(fileObj.from, deleteAt))
                /\ history' = Append(history, fileObj.rows)
                /\ editModal' =
                     IF editModal.show
                     THEN [editModal EXCEPT !.at[n] =
                             IF @ = deleteAt THEN 0 ELSE IF @ > deleteAt THEN @ - 1 ELSE @]
                     ELSE editModal
                /\ effectPending' = TRUE
                /\ timers' = Append(timers, Timer("recheck", "", Render, <<>>, at))
                /\ pc' = "deleted"
  /\ steps' = Stepped
  /\ UNCHANGED <<fixed, repairTriggered, uploaded, checkResults, selectedRepairFile, undoExpected>>

\* handleUndoCustom: the popped snapshot becomes the rows of the selected
\* candidate.
UndoCustom ==
  /\ CanStep
  /\ Editable(repairFiles, selectedRepairFile)
  /\ Len(customUndoStack) > 0
  /\ LET prevRows == customUndoStack[Len(customUndoStack)]
         n == FindRepairFile(repairFiles, selectedRepairFile)
     IN /\ repairFiles' = WithRows(repairFiles, selectedRepairFile, prevRows,
                                   [k \in 1..Len(prevRows) |-> 0])
        /\ editModal' = IF editModal.show THEN [editModal EXCEPT !.at[n] = 0]
                        ELSE editModal
  /\ customUndoStack' = SubSeq(customUndoStack, 1, Len(customUndoStack) - 1)
  /\ stackOwners' = SubSeq(stackOwners, 1, Len(stackOwners) - 1)
  /\ undoExpected' = IF Len(history) > 0
                     THEN [known |-> TRUE, rows |-> history[Len(history)]]
                     ELSE [known |-> FALSE, rows |-> <<>>]
  /\ history' = SubSeq(history, 1, Len(history) - 1)
  /\ effectPending' = TRUE
  /\ steps' = Stepped
  /\ pc' = "undone"
  /\ UNCHANGED <<fixed, repairTriggered, uploaded, checkResults, selectedRepairFile, timers>>

\* The effect on [selectedFile, fileTables]: the rows of the selected file
\* become the table shown.
RunFileEffect ==
  /\ fileEffectPending
  /\ fileEffectPending' = FALSE
  /\ tableData' = IF selectedFile # "" /\ selectedFile \in DOMAIN fileTables
                  THEN fileTables[selectedFile].rows
                  ELSE tableData
  /\ UNCHANGED <<fixed, repairTriggered, confirmedConstraints, confirmedTypes, fileTables,
                 foreignKeyConfig, selectedFile, checkResults, repairFiles,
                 selectedRepairFile, customUndoStack, stackOwners, history,
                 undoExpected, steps, editModal, effectPending, timers, pc>>

\* The effect on [selectedRepairFile, repairFiles, confirmedConstraints,
\* fileTables, foreignKeyConfig, confirmedTypes]: no violation for a
\* candidate that is neither custom nor partial, the violations of
\* checkRepairFileViolations for one that is, null (no violation list) else.
RunEffect ==
  /\ effectPending
  /\ effectPending' = FALSE
  /\ checkResults' =
       IF selectedRepairFile # "" /\ ~IsCheckable(selectedRepairFile) THEN <<>>
       ELSE IF selectedRepairFile # ""
               /\ FindRepairFile(repairFiles, selectedRepairFile) # 0
       THEN checkRepairFileViolations(
              repairFiles[FindRepairFile(repairFiles, selectedRepairFile)],
              confirmedConstraints, fileTables, foreignKeyConfig, confirmedTypes)
       ELSE <<>>
  /\ UNCHANGED <<fixed, repairTriggered, uploaded, repairFiles, selectedRepairFile, customUndoStack,
                 stackOwners, history, undoExpected, steps, editModal, timers, pc>>

\* The oldest timer fires.
\*   install: the timer of handleRepair's foreign-key branch; the candidates
\*     are installed, the first selected, the referencing rows pushed on an
\*     empty undo stack, and a timer set that tests the selection of the
\*     render handleRepair ran in.
\*   check: no violation if the tested candidate is neither custom nor
\*     partial, else handleCheckRepair of that render.
\*   recheck: the timer of handleDeleteEntry; checkRepairFileViolations on
\*     the rows of that render without the deleted entry object.
FireTimer ==
  /\ timers # <<>>
  /\ LET t == Head(timers)
         r == t.render
     IN
     CASE t.kind = "install" ->
            /\ repairFiles' = t.objs
            /\ selectedRepairFile' = t.objs[1].name
            /\ repairTriggered' = TRUE
            /\ history' = <<>>
            /\ editModal' = Reopened(editModal, t.objs)
            /\ IF Len(customUndoStack) = 0 /\ r.config.referencedFile \in DOMAIN r.tables
               THEN /\ customUndoStack' =
                         << JsonClone(r.tables[r.config.referencedFile].rows) >>
                    /\ stackOwners' = << "_repair_custom" >>
               ELSE UNCHANGED <<customUndoStack, stackOwners>>
            /\ timers' = Append(Tail(timers), Timer("check", r.selected, r, <<>>, 0))
            /\ effectPending' = TRUE
            /\ UNCHANGED checkResults
       [] t.kind = "check" ->
            /\ checkResults' =
                 IF t.name # "" /\ ~IsCheckable(t.name) THEN <<>>
                 ELSE handleCheckRepair(r)
            /\ timers' = Tail(timers)
            /\ UNCHANGED <<repairFiles, selectedRepairFile, repairTriggered, history,
                           customUndoStack, stackOwners, effectPending, editModal>>
       [] t.kind = "recheck" ->
            /\ LET n == FindRepairFile(r.files, r.selected) IN
               IF r.selected # "" /\ IsCheckable(r.selected) /\ n # 0
               THEN checkResults' =
                      checkRepairFileViolations(
                        [r.files[n] EXCEPT !.rows = IF t.at = 0 THEN @ ELSE Without(@, t.at)],
                        r.constraints, r.tables, r.config, r.types)
               ELSE UNCHANGED checkResults
            /\ timers' = Tail(timers)
            /\ UNCHANGED <<repairFiles, selectedRepairFile, repairTriggered, history,
                           customUndoStack, stackOwners, effectPending, editModal>>
  /\ UNCHANGED <<fixed, uploaded, undoExpected, steps, pc>>

NextApp ==
  \/ HandleRepair
  \/ HandleCheckRepair
  \/ HandleClearViolations
  \/ \E u \in Uploads : ModalConfirm(u)
  \/ \E f \in DOMAIN fileTables : SelectFile(f)
  \/ \E n \in 1..Len(repairFiles) : SelectRepairFile(n)
  \/ \E n \in {FindRepairFile(repairFiles, selectedRepairFile)} \ {0} :
       \E p \in 1..Len(repairFiles[n].rows) : EditEntry(p)
  \/ CancelEdit
  \/ \E newEntry \in FormEntries(editModal) : SaveEdit(newEntry)
  \/ \E n \in {FindRepairFile(repairFiles, selectedRepairFile)} \ {0} :
       \E p \in 1..Len(repairFiles[n].rows) : DeleteEntry(p)
  \/ UndoCustom
  \/ RunFileEffect
  \/ RunEffect
  \/ FireTimer

SpecApp == InitApp /\ [][NextApp]_vars

\* The rows of the referenced file of a session with a foreign-key link.
LinkReferenced == << [id |-> T1, a |-> Tx] >>

\* The referencing tables of such a session: every key is '1', every
\* foreign-key value is empty or dangling.
LinkTables ==
  {t \in SessionTables : \A k \in 1..Len(t) : t[k].id = T1 /\ t[k].a \in {Empty, Tx}}

\* A session on table.csv whose column a is linked to the key of ref.csv;
\* ref.csv was confirmed last and table.csv selected again.
InitLink ==
  /\ tableData \in LinkTables
  /\ \E st \in SessionSettings(LinkReferenced) :
       confirmedConstraints = st.constraints /\ confirmedTypes = st.types
  /\ fileTables = [f \in {"ref.csv", "table.csv"} |->
                     [rows |-> IF f = "ref.csv" THEN LinkReferenced ELSE tableData,
                      columns |-> Columns]]
  /\ foreignKeyConfig =
       [primaryFile |-> "ref.csv", fkCol |-> "a", referencedFile |-> "table.csv"]
  /\ selectedFile = "table.csv"
  /\ repairTriggered = FALSE
  /\ checkResults = <<>>
  /\ repairFiles = <<>>
  /\ generated = <<>>
  /\ deleteIndex = -1
  /\ updated = <<>>
  /\ selectedRepairFile = ""
  /\ customUndoStack = <<>>
  /\ stackOwners = <<>>
  /\ history = <<>>
  /\ undoExpected = [known |-> FALSE, rows |-> <<>>]
  /\ steps = 0
  /\ editModal = ClosedModal
  /\ effectPending = FALSE
  /\ fileEffectPending = FALSE
  /\ timers = <<>>
  /\ pc = "loaded"

SpecLink == InitLink /\ [][NextApp]_vars

(***************************************************************************)
(* Properties                                                              *)
(***************************************************************************)
\* The tableData rows without the one at 0-based index d.
WithoutRow(rows, d) ==
  [p \in 1..(Len(rows) - 1) |-> IF p <= d THEN rows[p] ELSE rows[p + 1]]

\* A violation list as a multiset keyed by (row, col, kind).
ViolationBag(violations) ==
  LET keyed == [k \in 1..Len(violations) |->
                  <<violations[k].row, violations[k].col, violations[k].type>>]
  IN [e \in Range(keyed) |-> Cardinality({k \in 1..Len(keyed) : keyed[k] = e})]

HasViolation(violations, r, c, t) ==
  \E k \in 1..Len(violations) :
    violations[k].row = r /\ violations[k].col = c /\ violations[k].type = t

\* C1: on every primary column c, row i carries a PRIMARY KEY violation
\* exactly when its value is null/empty or equals the value of an earlier
\* row; no PRIMARY KEY violation names another row or a column that is not
\* primary.
C1_PrimaryKeyViolations ==
  pc = "checked" =>
    /\ \A idx \in 1..Len(Columns) : \A i \in 1..Len(tableData) :
         "primary" \in confirmedConstraints[idx] =>
           (HasViolation(checkResults, i, Columns[idx], "PRIMARY KEY")
            <=> \/ IsEmpty(tableData[i][Columns[idx]])
                \/ \E j \in 1..(i - 1) :
                     tableData[j][Columns[idx]] = tableData[i][Columns[idx]])
    /\ \A k \in 1..Len(checkResults) :
         checkResults[k].type = "PRIMARY KEY" =>
           /\ checkResults[k].row \in 1..Len(tableData)
           /\ \E idx \in 1..Len(Columns) :
                /\ Columns[idx] = checkResults[k].col
                /\ "primary" \in confirmedConstraints[idx]

\* C1 witness: a checked table whose primary column has a null/empty key, a
\* repeated key and a row that is not flagged.
C1_Witness ==
  /\ pc = "checked"
  /\ \E k \in 1..Len(checkResults) :
       checkResults[k].type = "PRIMARY KEY" /\ checkResults[k].msg = NullMsg
  /\ \E k \in 1..Len(checkResults) :
       checkResults[k].type = "PRIMARY KEY" /\ checkResults[k].msg = DupMsg
  /\ \E i \in 1..Len(tableData) : ~HasViolation(checkResults, i, "id", "PRIMARY KEY")

\* C2 as claimed: after the tracker ran for the deletion of row d, the
\* updated violations equal, as a multiset keyed by (row, col, kind), the
\* violations checked from scratch on the table without row d.
C2_UpdateEqualsRecheck ==
  pc = "tracked" =>
    ViolationBag(updated)
      = ViolationBag(checkViolations(WithoutRow(tableData, deleteIndex),
                                     confirmedConstraints, fileTables, foreignKeyConfig, confirmedTypes))

\* C3: the tracker returns, in order, the violations whose row - 1 is not
\* the deleted index, those behind it with the row decremented by one and
\* nothing else changed, the others untouched; none for an empty list.
C3_ShiftOnly ==
  pc = "tracked" =>
    LET dropped(k) == Cardinality({j \in 1..k : checkResults[j].row - 1 = deleteIndex})
    IN /\ Len(updated) = Len(checkResults) - dropped(Len(checkResults))
       /\ \A k \in 1..Len(checkResults) :
            checkResults[k].row - 1 # deleteIndex =>
              updated[k - dropped(k)] =
                [row |-> IF checkResults[k].row - 1 > deleteIndex
                         THEN checkResults[k].row - 1
                         ELSE checkResults[k].row,
                 col |-> checkResults[k].col,
                 type |-> checkResults[k].type,
                 msg |-> checkResults[k].msg]

\* C3 witness: the deletion dropped a violation, shifted one behind it and
\* left one before it alone.
C3_Witness ==
  /\ pc = "tracked"
  /\ \E k \in 1..Len(checkResults) : checkResults[k].row - 1 = deleteIndex
  /\ \E k \in 1..Len(checkResults) : checkResults[k].row - 1 > deleteIndex
  /\ \E k \in 1..Len(checkResults) : checkResults[k].row - 1 < deleteIndex
  /\ Len(updated) < Len(checkResults)

\* The deleted row is, in a primary or unique column, the earliest row of a
\* non-empty value that a later row repeats.
DeletesFirstOccurrence(rows, constraints, d) ==
  \E idx \in 1..Len(Columns) :
    /\ constraints[idx] \cap {"primary", "unique"} # {}
    /\ ~IsEmpty(rows[d + 1][Columns[idx]])
    /\ \A j \in 1..d : rows[j][Columns[idx]] # rows[d + 1][Columns[idx]]
    /\ \E j \in (d + 2)..Len(rows) : rows[j][Columns[idx]] = rows[d + 1][Columns[idx]]

\* The violations that depend on their own row alone.
RowLocal(violations) == SelectSeq(violations, LAMBDA v : v.msg # DupMsg)

\* Extent of the divergence found for C2: the updated violations equal the
\* recheck of the table without row d on the NOT NULL, TYPE MISMATCH and
\* null/empty PRIMARY KEY violations always, and on all violations unless
\* the deleted row is the earliest row of a value repeated later in a
\* primary or unique column.
UpdateEqualsRecheckUnlessFirst ==
  pc = "tracked" =>
    LET recheck == checkViolations(WithoutRow(tableData, deleteIndex),
                                   confirmedConstraints, fileTables, foreignKeyConfig, confirmedTypes)
    IN /\ ViolationBag(RowLocal(updated)) = ViolationBag(RowLocal(recheck))
       /\ ~DeletesFirstOccurrence(tableData, confirmedConstraints, deleteIndex)
            => ViolationBag(updated) = ViolationBag(recheck)

\* A flagged row was deleted, a duplicate violation behind it was shifted,
\* and the deleted row was no first occurrence.
ShiftedDuplicate ==
  /\ pc = "tracked"
  /\ ~DeletesFirstOccurrence(tableData, confirmedConstraints, deleteIndex)
  /\ \E k \in 1..Len(checkResults) : checkResults[k].row - 1 = deleteIndex
  /\ \E k \in 1..Len(checkResults) :
       /\ checkResults[k].row - 1 > deleteIndex
       /\ checkResults[k].msg = DupMsg
       /\ HasViolation(updated, checkResults[k].row - 1, checkResults[k].col,
                       checkResults[k].type)

HasMsg(violations, msg) == \E k \in 1..Len(violations) : violations[k].msg = msg

\* The tableData positions that carry a null/empty violation.
NullViolated == {checkResults[k].row : k \in {j \in 1..Len(checkResults) :
                                                checkResults[j].msg = NullMsg}}

\* The columns that carry a duplicate-value violation.
DupCols == {checkResults[k].col : k \in {j \in 1..Len(checkResults) :
                                           checkResults[j].msg = DupMsg}}

\* C4: every candidate of generateGeneralRepairs, checked again under the
\* same constraints, has no null/empty and no duplicate-value violation.
C4_GeneralCandidatesClean ==
  pc = "general" =>
    \A k \in 1..Len(generated) :
      LET again == checkViolations(generated[k].rows, confirmedConstraints,
                                   fileTables, foreignKeyConfig, confirmedTypes)
      IN ~HasMsg(again, NullMsg) /\ ~HasMsg(again, DupMsg)

\* C4 witness: a table with null/empty and duplicate violations got two
\* non-empty candidates, each shorter than the table.
C4_Witness ==
  /\ pc = "general"
  /\ HasMsg(checkResults, NullMsg) /\ HasMsg(checkResults, DupMsg)
  /\ Len(generated) = 2
  /\ Len(generated[1].rows) >= 1 /\ Len(generated[2].rows) >= 1
  /\ Len(generated[1].rows) < Len(tableData)

\* C8: generateGeneralRepairs returns nothing without null/empty and
\* duplicate violations; one candidate, the rows free of null violations,
\* when there are only null violations; else keep-first followed by
\* keep-last, the latter left out exactly when its rows equal keep-first's.
\* So at most two candidates, and two candidates differ.
C8_GeneralCandidateCount ==
  pc = "general" =>
    LET nonNull == SelectIdx([p \in 1..Len(tableData) |-> p \notin NullViolated],
                             1, Len(tableData))
        lastRows == RowsAt(tableData,
                           KeepLast(tableData, {p - 1 : p \in NullViolated},
                                    ViolatedCols(WithMsg(checkResults, DupMsg))))
    IN /\ Len(generated) <= 2
       /\ (~HasMsg(checkResults, NullMsg) /\ ~HasMsg(checkResults, DupMsg))
            => generated = <<>>
       /\ (HasMsg(checkResults, NullMsg) /\ ~HasMsg(checkResults, DupMsg))
            => /\ Len(generated) = 1
               /\ generated[1].rows = RowsAt(tableData, nonNull)
       /\ HasMsg(checkResults, DupMsg)
            => /\ Len(generated) >= 1
               /\ generated[1].name = "_repair_1"
               /\ (Len(generated) = 1 <=> generated[1].rows = lastRows)
               /\ Len(generated) = 2
                    => /\ generated[2].name = "_repair_2"
                       /\ generated[2].rows = lastRows
                       /\ generated[2].rows # generated[1].rows

\* C8 witness: duplicates whose keep-first and keep-last rows are equal in
\* every value, so that one candidate was returned.
C8_Witness ==
  /\ pc = "general"
  /\ HasMsg(checkResults, DupMsg)
  /\ Len(generated) = 1
  /\ Len(generated[1].rows) >= 2

\* The positions, among the rows free of null violations, that are the
\* earliest (first = TRUE) or latest row carrying their value of column c.
ExtremeRows(c, first) ==
  SelectIdx([p \in 1..Len(tableData) |->
               /\ p \notin NullViolated
               /\ \A q \in 1..Len(tableData) :
                    (q \notin NullViolated /\ tableData[q][c] = tableData[p][c])
                      => IF first THEN p <= q ELSE q <= p],
            1, Len(tableData))

\* C9 as claimed: with one duplicate-violated column c, keep-first retains
\* exactly the earliest row of each value of c among the rows free of null
\* violations and keep-last exactly the latest, in table order.
C9_KeepFirstKeepLast ==
  (pc = "general" /\ Cardinality(DupCols) = 1) =>
    LET c == CHOOSE col \in DupCols : TRUE IN
      /\ generated[1].from = ExtremeRows(c, TRUE)
      /\ IF Len(generated) = 2
         THEN generated[2].from = ExtremeRows(c, FALSE)
         ELSE generated[1].rows = RowsAt(tableData, ExtremeRows(c, FALSE))

\* C10 as claimed: no removed row that is free of null violations can be put
\* back at its place in a keep-first or keep-last candidate without a
\* duplicate-value violation appearing in a violated column.
C10_MinimalChange ==
  (pc = "general" /\ HasMsg(checkResults, DupMsg)) =>
    \A k \in 1..Len(generated) : \A p \in 1..Len(tableData) :
      (p \notin Range(generated[k].from) /\ p \notin NullViolated) =>
        LET back == SelectIdx([q \in 1..Len(tableData) |->
                                 q = p \/ q \in Range(generated[k].from)],
                              1, Len(tableData))
            again == checkViolations(RowsAt(tableData, back), confirmedConstraints,
                                     fileTables, foreignKeyConfig, confirmedTypes)
        IN \E j \in 1..Len(again) : again[j].msg = DupMsg /\ again[j].col \in DupCols

\* A row list as a multiset of rows.
RowBag(rows) ==
  [r \in Range(rows) |-> Cardinality({k \in 1..Len(rows) : rows[k] = r})]

\* The primary-key groups: the sets of tableData positions that agree on the
\* value of every primary column.
KeyGroups ==
  LET pkCols == PkCols(tableData, confirmedConstraints)
      sameKey(p, q) == \A k \in 1..Len(pkCols) :
                         tableData[p][pkCols[k]] = tableData[q][pkCols[k]]
  IN {{q \in 1..Len(tableData) : sameKey(p, q)} : p \in 1..Len(tableData)}

\* The rows left of one choice per group once the chosen rows with a
\* null/empty non-key value are dropped, in table order.
ChoiceResult(choice) ==
  LET pkCols == PkCols(tableData, confirmedConstraints)
      kept == [p \in 1..Len(tableData) |->
                 /\ \E g \in KeyGroups : choice[g] = p
                 /\ \A c \in ColSet \ Range(pkCols) : ~IsEmpty(tableData[p][c])]
  IN RowsAt(tableData, SelectIdx(kept, 1, Len(tableData)))

\* The distinct non-empty results over all choices of one row per group.
ChoiceResults ==
  {RowBag(ChoiceResult(choice)) :
     choice \in {ch \in [KeyGroups -> 1..Len(tableData)] :
                   \A g \in KeyGroups : ch[g] \in g}} \ {RowBag(<<>>)}

\* C5 as claimed: generatePrimaryKeyRepairs returns exactly one candidate for
\* each distinct non-empty result of choosing one row of every primary-key
\* group and dropping the chosen rows with a null/empty non-key value; no
\* result is missing and no two candidates have the same rows.
C5_OneCandidatePerChoice ==
  (pc = "primary" /\ Len(PkCols(tableData, confirmedConstraints)) > 0) =>
    /\ {RowBag(generated[k].rows) : k \in 1..Len(generated)} = ChoiceResults
    /\ Len(generated) = Cardinality(ChoiceResults)
    /\ \A i, j \in 1..Len(generated) :
         i # j => generated[i].rows # generated[j].rows

HasType(violations, type) == \E k \in 1..Len(violations) : violations[k].type = type

\* In every candidate, each row with a type mismatch is present with its
\* values, flagged edit-needed, with a reason naming the mismatching column.
TypeRowsFlagged ==
  \A n \in 1..Len(generated) : \A j \in 1..Len(checkResults) :
    checkResults[j].type = "TYPE MISMATCH" =>
      \E k \in 1..Len(generated[n].rows) :
        /\ generated[n].from[k] = checkResults[j].row
        /\ \A c \in ColSet :
             generated[n].rows[k][c] = tableData[checkResults[j].row][c]
        /\ generated[n].rows[k]["_needsEdit"]
        /\ \E r \in Range(generated[n].rows[k]["_violationReasons"]) :
             r[1] = checkResults[j].col

CandidateNames == [k \in 1..Len(generated) |-> generated[k].name]

\* C6 as claimed: with a TYPE MISMATCH violation generatePartialRepairs
\* returns exactly the three candidates Partial-1, Partial-2 and Partial-3,
\* each holding every type-mismatch row flagged with its reason.
C6_ThreePartialCandidates ==
  (pc = "partial" /\ HasType(checkResults, "TYPE MISMATCH")) =>
    /\ CandidateNames
         = <<"_partial_repair_1", "_partial_repair_2", "_partial_repair_custom">>
    /\ TypeRowsFlagged

\* C7 as claimed: for a table whose check reports no violation, each
\* generator returns no candidate.
C7_NoViolationNoCandidate ==
  (pc \in {"primary", "partial", "general"} /\ checkResults = <<>>) =>
    generated = <<>>

(***************************************************************************)
(* Foreign-key properties (SpecFK)                                         *)
(***************************************************************************)
ForeignRows == fileTables[foreignKeyConfig.referencedFile].rows
PrimaryRows == fileTables[foreignKeyConfig.primaryFile].rows
ReferencedKey == PkCol(fileTables[foreignKeyConfig.primaryFile], confirmedConstraints)

\* The referencing row at position p has a non-empty foreign-key value whose
\* trimmed string form is that of no non-empty referenced key value.
Dangling(p) ==
  LET fk == ForeignRows[p][foreignKeyConfig.fkCol] IN
    /\ fk \notin {Null, Empty}
    /\ \A q \in 1..Len(PrimaryRows) :
         \/ PrimaryRows[q][ReferencedKey] \in {Null, Empty}
         \/ Trim(String(PrimaryRows[q][ReferencedKey])) # Trim(String(fk))

\* C11: the FOREIGN KEY violations of a check name exactly the referencing
\* rows with a dangling foreign-key value, each once and by its 1-based
\* index; a row with an empty foreign-key value is never named.
C11_ForeignKeyViolations ==
  (pc = "checked" /\ Len(tableData) > 0) =>
    LET fkv == SelectSeq(checkResults, LAMBDA v : v.type = "FOREIGN KEY") IN
      /\ \A k \in 1..Len(fkv) : fkv[k].row \in 1..Len(ForeignRows)
      /\ \A p \in 1..Len(ForeignRows) :
           (\E k \in 1..Len(fkv) : fkv[k].row = p) <=> Dangling(p)
      /\ Len(fkv) = Cardinality({p \in 1..Len(ForeignRows) : Dangling(p)})

\* C11 witness: a check flagged a dangling value behind a row with an empty
\* value and left alone a row whose number matches a padded text only once
\* both are converted and trimmed.
C11_Witness ==
  /\ pc = "checked"
  /\ \E k \in 1..Len(checkResults) :
       /\ checkResults[k].type = "FOREIGN KEY"
       /\ \E p \in 1..(checkResults[k].row - 1) :
            ForeignRows[p][foreignKeyConfig.fkCol] = Empty
  /\ \E p \in 1..Len(ForeignRows) :
       /\ ForeignRows[p][foreignKeyConfig.fkCol] = N1
       /\ ~HasViolation(checkResults, p, foreignKeyConfig.fkCol, "FOREIGN KEY")
       /\ \E q \in 1..Len(PrimaryRows) : PrimaryRows[q][ReferencedKey] = TSp

\* C12: generateForeignKeyRepairs returns nothing when no referencing row
\* dangles; else the delete candidate, holding exactly the rows that do not
\* dangle in their order (so it has no dangling row), then the custom
\* candidate, holding all referencing rows in their order.
C12_ForeignKeyCandidates ==
  pc = "foreign" =>
    IF \A p \in 1..Len(ForeignRows) : ~Dangling(p) THEN generated = <<>>
    ELSE /\ CandidateNames = <<"_repair_delete", "_repair_custom">>
         /\ LET del == generated[1] IN
              /\ \A k \in 1..Len(del.rows) : del.rows[k] = ForeignRows[del.from[k]]
              /\ \A k \in 1..(Len(del.from) - 1) : del.from[k] < del.from[k + 1]
              /\ Range(del.from) = {p \in 1..Len(ForeignRows) : ~Dangling(p)}
              /\ checkForeignKeyViolations(del.rows, PrimaryRows,
                                           foreignKeyConfig.fkCol, ReferencedKey) = <<>>
         /\ generated[2].rows = ForeignRows

\* C12 witness: the delete candidate kept two rows around a dangling one.
C12_Witness ==
  /\ pc = "foreign"
  /\ Len(generated) = 2
  /\ Len(generated[1].rows) = 2
  /\ Dangling(2)
  /\ Len(generated[2].rows) = 3

\* The table has no row, or rows without columns.
Degenerate(rows) == Len(rows) = 0 \/ ObjectKeys(rows[1]) = <<>>

\* C18 as claimed: for a table without rows or without columns the check
\* returns no violation, and each of the four generators applied with that
\* table and the empty violation list returns no candidate.
C18_DegenerateTable ==
  Degenerate(tableData) =>
    /\ pc = "checked" => checkResults = <<>>
    /\ (pc \in {"primary", "partial", "general", "foreign"} /\ checkResults = <<>>)
         => generated = <<>>

\* C20 as claimed: every violation of a check has a row index between 1
\* and the number of rows of the table that was checked.
C20_RowIndexValid ==
  pc = "checked" =>
    \A k \in 1..Len(checkResults) : checkResults[k].row \in 1..Len(tableData)

(***************************************************************************)
(* Partial-repair annotations                                              *)
(***************************************************************************)
\* The 'column: message' strings of the violations of `violations` that
\* satisfy Keep and name the 1-based row r, in list order.
ReasonList(violations, r, Keep(_)) ==
  LET mine == SelectSeq(violations, LAMBDA v : v.row = r /\ Keep(v))
  IN [k \in 1..Len(mine) |-> <<mine[k].col, mine[k].msg>>]

IsTypeMismatch(v) == v.type = "TYPE MISMATCH"

AnyKind(v) == TRUE

\* C14: Partial-1 and Partial-2 hold every row that has a TYPE MISMATCH
\* violation, whatever its null/duplicate violations; each row they hold is
\* flagged edit-needed exactly when it has a type mismatch and lists exactly
\* the reasons of the type mismatches of the table row it is.
C14_PartialKeepsTypeRows ==
  pc = "partial" =>
    \A n \in 1..Len(generated) :
      generated[n].name \in {"_partial_repair_1", "_partial_repair_2"} =>
        LET c == generated[n]
            typeRows == {checkResults[k].row :
                           k \in {j \in 1..Len(checkResults) :
                                    IsTypeMismatch(checkResults[j])}}
        IN /\ typeRows \subseteq Range(c.from)
           /\ \A k \in 1..Len(c.rows) :
                /\ \A col \in ColSet : c.rows[k][col] = tableData[c.from[k]][col]
                /\ c.rows[k]["_needsEdit"] <=> c.from[k] \in typeRows
                /\ c.rows[k]["_violationReasons"]
                     = ReasonList(checkResults, c.from[k], IsTypeMismatch)

\* C14 witness: a row with a type mismatch and a null/empty violation is
\* held by Partial-1 and Partial-2, which dropped another row.
C14_Witness ==
  /\ pc = "partial"
  /\ Len(generated) = 3
  /\ \E i, j \in 1..Len(checkResults) :
       /\ IsTypeMismatch(checkResults[i])
       /\ checkResults[j].msg = NullMsg
       /\ checkResults[i].row = checkResults[j].row
       /\ checkResults[i].row \in Range(generated[1].from)
       /\ checkResults[i].row \in Range(generated[2].from)
  /\ Len(generated[1].rows) < Len(tableData)
  /\ Len(generated[2].rows) < Len(tableData)

\* C15: Partial-3 holds every table row in order with its values; row i is
\* flagged edit-needed exactly when a violation of any kind names row
\* i + 1, and lists exactly the reasons of the violations naming it.
C15_CustomAnnotatesAll ==
  (pc = "partial" /\ Len(generated) > 0) =>
    LET c == generated[Len(generated)] IN
      /\ c.name = "_partial_repair_custom"
      /\ Len(c.rows) = Len(tableData)
      /\ \A p \in 1..Len(tableData) :
           /\ \A col \in ColSet : c.rows[p][col] = tableData[p][col]
           /\ c.rows[p]["_needsEdit"]
                <=> \E k \in 1..Len(checkResults) : checkResults[k].row = p
           /\ c.rows[p]["_violationReasons"] = ReasonList(checkResults, p, AnyKind)

\* C15 witness: Partial-3 flagged one row for a foreign-key violation alone
\* and another for a type mismatch together with other violations.
C15_Witness ==
  /\ pc = "partial"
  /\ Len(generated) > 0
  /\ LET c == generated[Len(generated)] IN
       /\ \E p \in 1..Len(c.rows) :
            /\ c.rows[p]["_needsEdit"]
            /\ \A k \in 1..Len(checkResults) :
                 checkResults[k].row = p => checkResults[k].type = "FOREIGN KEY"
       /\ \E p \in 1..Len(c.rows) :
            /\ HasViolation(checkResults, p, "a", "TYPE MISMATCH")
            /\ Len(c.rows[p]["_violationReasons"]) > 1

(***************************************************************************)
(* Editing-session properties (SpecApp)                                    *)
(***************************************************************************)
\* The selected candidate.
SelectedCandidate == repairFiles[FindRepairFile(repairFiles, selectedRepairFile)]

\* The row is flagged edit-needed.
Flagged(row) == "_needsEdit" \in DOMAIN row /\ row["_needsEdit"]

\* C13: after a repair trigger without foreign-key link the candidate list
\* has exactly one custom candidate, which is the last one and holds the
\* values of all table rows in order; it is the appended custom candidate
\* unless the candidates are partial ones, whose last is Partial-3.
C13_OneCustomCandidateLast ==
  pc = "repaired" =>
    LET last == repairFiles[Len(repairFiles)] IN
      /\ {n \in 1..Len(repairFiles) : IncludesRepairCustom(repairFiles[n].name)}
           = {Len(repairFiles)}
      /\ Len(last.rows) = Len(tableData)
      /\ \A q \in 1..Len(tableData) : \A col \in ColSet :
           last.rows[q][col] = tableData[q][col]
      /\ last.name = IF \E n \in 1..Len(repairFiles) : repairFiles[n].isPartialRepair
                     THEN "_partial_repair_custom" ELSE "_repair_custom"

\* C13 witness: two primary-key candidates were followed by the custom one.
C13_Witness ==
  /\ pc = "repaired"
  /\ Len(repairFiles) = 3
  /\ repairFiles[3].name = "_repair_custom"
  /\ Len(repairFiles[3].rows) > Len(repairFiles[1].rows)

\* C16 as claimed: in every state of a session the editableRows of a
\* partial candidate are exactly the 0-based indices of its rows that are
\* flagged edit-needed.
C16_EditableRowsCurrent ==
  \A n \in 1..Len(repairFiles) :
    repairFiles[n].isPartialRepair =>
      Range(repairFiles[n].editableRows)
        = {i \in 0..(Len(repairFiles[n].rows) - 1) : Flagged(repairFiles[n].rows[i + 1])}

\* C17: an undo that follows mutations of the selected candidate, with no
\* other selection or repair trigger since, leaves the candidate with the
\* rows (values, order, annotations) it had before the latest mutation not
\* yet undone; so n mutations and n undos restore the rows before the first.
C17_UndoRestores ==
  (pc = "undone" /\ undoExpected.known) => SelectedCandidate.rows = undoExpected.rows

\* C17 witness: two mutations of a partial candidate and two undos brought
\* back its annotated rows.
C17_Witness ==
  /\ pc = "undone"
  /\ undoExpected.known
  /\ steps = 4
  /\ customUndoStack = <<>>
  /\ SelectedCandidate.isPartialRepair
  /\ \E k \in 1..Len(SelectedCandidate.rows) : Flagged(SelectedCandidate.rows[k])

\* C19 as claimed: every snapshot on the undo stack was taken from the
\* candidate that is selected now.
C19_SnapshotsOfSelected ==
  \A k \in 1..Len(stackOwners) : stackOwners[k] = selectedRepairFile

(***************************************************************************)
(* Candidates checked again                                                *)
(***************************************************************************)
\* The violations a check under the confirmed constraints and types reports
\* for a candidate's row sequence.
Recheck(rows) ==
  checkViolations(rows, confirmedConstraints, fileTables, foreignKeyConfig,
                  confirmedTypes)

\* C21 as claimed: no candidate of generatePrimaryKeyRepairs, checked again
\* under the same constraints, has a PRIMARY KEY violation (no null/empty
\* and no repeated value in a primary column).
C21_PrimaryKeyCandidatesClean ==
  pc = "primary" =>
    \A n \in 1..Len(generated) :
      ~HasType(Recheck(generated[n].rows), "PRIMARY KEY")

\* Two rows have the same value in every primary column.
SameKey(r1, r2) ==
  LET pkCols == PkCols(tableData, confirmedConstraints)
  IN \A k \in 1..Len(pkCols) : r1[pkCols[k]] = r2[pkCols[k]]

\* C22 as claimed: in every candidate of generatePrimaryKeyRepairs no two
\* rows have the same tuple of primary-key values, every row is a table
\* row, no candidate is empty, and every key group of the table has exactly
\* one row in the candidate unless the group has a row with a null/empty
\* value in a non-key column (the chosen row may be that one, dropped).
C22_OneRowPerKeyGroup ==
  pc = "primary" =>
    LET pkCols == PkCols(tableData, confirmedConstraints) IN
    \A n \in 1..Len(generated) :
      LET c == generated[n] IN
        /\ Len(c.rows) > 0
        /\ \A k \in 1..Len(c.rows) : c.rows[k] \in Range(tableData)
        /\ \A k, j \in 1..Len(c.rows) : k # j => ~SameKey(c.rows[k], c.rows[j])
        /\ \A g \in KeyGroups :
             \/ Cardinality({k \in 1..Len(c.rows) : SameKey(c.rows[k], tableData[CHOOSE p \in g : TRUE])}) = 1
             \/ \E p \in g : \E col \in ColSet \ Range(pkCols) : IsEmpty(tableData[p][col])

\* C23: in every candidate of generatePartialRepairs a row is flagged
\* edit-needed exactly when its list of violation reasons is not empty, and
\* editableRows lists exactly the flagged rows.
C23_FlaggedIffReasons ==
  pc = "partial" =>
    \A n \in 1..Len(generated) :
      LET c == generated[n] IN
        /\ \A k \in 1..Len(c.rows) :
             c.rows[k]["_needsEdit"] <=> Len(c.rows[k]["_violationReasons"]) > 0
        /\ Range(c.editableRows)
             = {k - 1 : k \in {j \in 1..Len(c.rows) : c.rows[j]["_needsEdit"]}}

\* C23 witness: Partial-1 holds a flagged row behind a row without reasons,
\* and Partial-3 flags a row that has no type mismatch.
C23_Witness ==
  /\ pc = "partial"
  /\ Len(generated) = 3
  /\ Len(generated[1].rows) >= 2
  /\ ~generated[1].rows[1]["_needsEdit"]
  /\ \E k \in 2..Len(generated[1].rows) :
       Len(generated[1].rows[k]["_violationReasons"]) > 0
  /\ \E p \in 1..Len(generated[3].rows) :
       /\ generated[3].rows[p]["_needsEdit"]
       /\ ~HasViolation(checkResults, p, "a", "TYPE MISMATCH")
       /\ ~HasViolation(checkResults, p, "id", "TYPE MISMATCH")

\* C24 as claimed: checked again under the same constraints, Partial-1 and
\* Partial-2 have null/empty and duplicate-value violations on flagged rows
\* only.
C24_UnflaggedRowsClean ==
  pc = "partial" =>
    \A n \in 1..Len(generated) :
      generated[n].name \in {"_partial_repair_1", "_partial_repair_2"} =>
        LET c == generated[n]
            again == Recheck(c.rows)
        IN \A k \in 1..Len(again) :
             again[k].msg \in {NullMsg, DupMsg} => c.rows[again[k].row]["_needsEdit"]

RECURSIVE IsSubsequence(_, _)
\* s is t with some elements left out.
IsSubsequence(s, t) ==
  IF s = <<>> THEN TRUE
  ELSE IF t = <<>> THEN FALSE
  ELSE IF Head(s) = Head(t) THEN IsSubsequence(Tail(s), Tail(t))
  ELSE IsSubsequence(s, Tail(t))

\* The column values of a row list, annotations left out.
ColumnsOnly(rows) ==
  [k \in 1..Len(rows) |-> [c \in DOMAIN rows[k] \ {"_needsEdit", "_violationReasons"} |-> rows[k][c]]]

\* C28: the rows of every general candidate and of Partial-1 and Partial-2
\* (annotations left out) are a subsequence of the table's rows, and the
\* rows of the foreign-key delete candidate are a subsequence of the
\* referencing table's rows.
C28_CandidatesAreSubsequences ==
  /\ pc = "general" =>
       \A n \in 1..Len(generated) : IsSubsequence(generated[n].rows, tableData)
  /\ pc = "partial" =>
       \A n \in 1..Len(generated) :
         generated[n].name \in {"_partial_repair_1", "_partial_repair_2"} =>
           IsSubsequence(ColumnsOnly(generated[n].rows), tableData)
  /\ pc = "foreign" =>
       \A n \in 1..Len(generated) :
         generated[n].name = "_repair_delete" =>
           IsSubsequence(generated[n].rows, ForeignRows)

\* C28 witness: a delete candidate that kept two different rows around a
\* dropped one.
C28_Witness ==
  /\ pc = "foreign"
  /\ Len(generated) = 2
  /\ Len(generated[1].rows) = 2
  /\ generated[1].from = <<1, 3>>
  /\ generated[1].rows[1] # generated[1].rows[2]

(***************************************************************************)
(* Candidates of a foreign-key link                                        *)
(***************************************************************************)
\* The rows named by the FOREIGN KEY violations of a list.
ForeignKeyRowsOf(violations) ==
  {violations[k].row : k \in {j \in 1..Len(violations) :
                                 violations[j].type = "FOREIGN KEY"}}

\* C25 as claimed: for the custom candidate of the referencing table, as
\* generated, checkRepairFileViolations takes the referenced key column
\* that checkViolations takes, and its FOREIGN KEY violations name the rows
\* that those of checkViolations on the referencing table name.
C25_SameReferencedKey ==
  (pc = "foreign" /\ Len(generated) = 2 /\ tableData = ForeignRows) =>
    /\ RepairPkCol(fileTables[foreignKeyConfig.primaryFile], confirmedConstraints)
         = ReferencedKey
    /\ ForeignKeyRowsOf(checkRepairFileViolations(generated[2], confirmedConstraints,
                                                   fileTables, foreignKeyConfig,
                                                   confirmedTypes))
         = ForeignKeyRowsOf(checkResults)


(***************************************************************************)
(* The stored violations after a deletion                                  *)
(***************************************************************************)
\* checkRepairFileViolations on the rows the selected candidate has now.
FreshViolations ==
  checkRepairFileViolations(SelectedCandidate, confirmedConstraints, fileTables,
                            foreignKeyConfig, confirmedTypes)

\* C26 as claimed: once the effect and the timer that follow a deletion
\* from the selected custom or partial candidate have both run, in either
\* order, the stored violations are those of checkRepairFileViolations on
\* the rows the candidate has after the deletion.
C26_DeletionRechecked ==
  (pc = "deleted" /\ Idle) => checkResults = FreshViolations


(***************************************************************************)
(* Repair of a table with violations                                       *)
(***************************************************************************)
\* checkViolations reports a violation of the selected table that is not a
\* FOREIGN KEY one.
HasOwnViolation ==
  \E k \in 1..Len(Recheck(tableData)) :
    Recheck(tableData)[k].type \in {"PRIMARY KEY", "UNIQUE", "NOT NULL", "TYPE MISMATCH"}

\* C27 as claimed: when the selected table has a PRIMARY KEY, UNIQUE, NOT
\* NULL or TYPE MISMATCH violation, a repair trigger and its deferred
\* callbacks leave a non-empty candidate list, with a complete foreign-key
\* link as well.
C27_ViolationsGiveCandidates ==
  (pc \in {"repaired", "linking", "norepair"} /\ Idle /\ HasOwnViolation)
    => Len(repairFiles) > 0


(***************************************************************************)
(* What edit, delete and undo change                                       *)
(***************************************************************************)
\* C29 as claimed: a step of a selection, an edit, a delete or an undo
\* changes the rows of no candidate but the selected one, and of that one
\* only if it is a custom or partial candidate; the rows of the uploaded
\* tables stay as they are.
C29_OnlySelectedEditableChanges ==
  [][(steps' = steps + 1
      /\ pc' \in {"selected", "editing", "edited", "deleted", "undone", "notfound"}) =>
       /\ tableData' = tableData
       /\ fileTables' = fileTables
       /\ Len(repairFiles') = Len(repairFiles)
       /\ \A n \in 1..Len(repairFiles) :
            repairFiles'[n].rows # repairFiles[n].rows =>
              /\ repairFiles[n].name = selectedRepairFile
              /\ Editable(repairFiles, selectedRepairFile)]_vars

\* C30 as claimed: an edit or delete whose entry is not found among the rows
\* of the selected candidate changes neither the rows of any candidate nor
\* the undo stack.
C30_NotFoundChangesNothing ==
  [][(steps' = steps + 1 /\ pc' = "notfound") =>
       /\ repairFiles' = repairFiles
       /\ customUndoStack' = customUndoStack]_vars

====
